---- MODULE Spec2Model ----
(***************************************************************************)
(* Model of the GitHub issue resolver: the resolve_github_issue tool       *)
(* (tools/resolve-github-issue.tool.ts), the planner                       *)
(* (services/planner.service.ts), the implementation service               *)
(* (services/implementation.service.ts) and the container service          *)
(* (services/docker.service.ts).                                           *)
(*                                                                         *)
(* JavaScript strings that the code inspects character by character        *)
(* (toLowerCase, includes, split, trim, regular expressions) are sequences *)
(* of one-character strings.  Strings the code only compares for equality  *)
(* or passes on (user responses, URLs, error messages) are TLA+ strings.   *)
(***************************************************************************)
EXTENDS Integers, Sequences, FiniteSets, TLC

----------------------------------------------------------------------------
(* String primitives of the JavaScript runtime, as the code uses them.     *)

\* String.prototype.toLowerCase on one character (ASCII letters).
LowerChar(c) ==
  CASE c = "A" -> "a" [] c = "B" -> "b" [] c = "C" -> "c" [] c = "D" -> "d"
    [] c = "E" -> "e" [] c = "F" -> "f" [] c = "G" -> "g" [] c = "H" -> "h"
    [] c = "I" -> "i" [] c = "J" -> "j" [] c = "K" -> "k" [] c = "L" -> "l"
    [] c = "M" -> "m" [] c = "N" -> "n" [] c = "O" -> "o" [] c = "P" -> "p"
    [] c = "Q" -> "q" [] c = "R" -> "r" [] c = "S" -> "s" [] c = "T" -> "t"
    [] c = "U" -> "u" [] c = "V" -> "v" [] c = "W" -> "w" [] c = "X" -> "x"
    [] c = "Y" -> "y" [] c = "Z" -> "z" [] OTHER -> c

\* String.prototype.toLowerCase.
ToLowerCase(s) ==
  [i \in 1..Len(s) |-> LowerChar(s[i])]

\* Whether pat occurs in s starting at position i (1-based).
StartsAt(s, pat, i) ==
  /\ i >= 1
  /\ i + Len(pat) - 1 <= Len(s)
  /\ \A j \in 1..Len(pat) : s[i + j - 1] = pat[j]

\* String.prototype.includes: substring containment (the empty string is
\* contained in every string).
Includes(s, pat) ==
  \E i \in 1..(Len(s) + 1) : StartsAt(s, pat, i)

\* String.prototype.indexOf from position from (1-based); 0 when absent.
IndexOfFrom(s, pat, from) ==
  IF \E i \in from..(Len(s) + 1) : StartsAt(s, pat, i)
  THEN CHOOSE i \in from..(Len(s) + 1) :
         /\ StartsAt(s, pat, i)
         /\ \A k \in from..(i - 1) : ~StartsAt(s, pat, k)
  ELSE 0

\* s.substring(from - 1, to) in 1-based inclusive positions from..to.
Slice(s, from, to) ==
  IF from > to THEN << >> ELSE SubSeq(s, from, to)

\* The characters matched by the regular-expression class \s that occur in
\* the texts of the model.
IsSpace(c) ==
  c \in {" ", "\n", "\t", "\r"}

\* The regular-expression class \d.
IsDigit(c) ==
  c \in {"0", "1", "2", "3", "4", "5", "6", "7", "8", "9"}

RECURSIVE TrimStart(_)
\* String.prototype.trimStart.
TrimStart(s) ==
  IF s # << >> /\ IsSpace(Head(s)) THEN TrimStart(Tail(s)) ELSE s

RECURSIVE TrimEnd(_)
\* String.prototype.trimEnd.
TrimEnd(s) ==
  IF s # << >> /\ IsSpace(s[Len(s)]) THEN TrimEnd(SubSeq(s, 1, Len(s) - 1)) ELSE s

\* String.prototype.trim.
Trim(s) ==
  TrimEnd(TrimStart(s))

RECURSIVE Split(_, _)
\* String.prototype.split on a one-character separator: the pieces between
\* the separators, empty pieces included ("".split(sep) is [""]).
Split(s, sep) ==
  LET i == IndexOfFrom(s, <<sep>>, 1)
  IN IF i = 0 \/ i > Len(s)
     THEN <<s>>
     ELSE <<Slice(s, 1, i - 1)>> \o Split(Slice(s, i + 1, Len(s)), sep)

RECURSIVE NumToStr(_)
\* Template-literal conversion of a non-negative integer to decimal digits.
NumToStr(n) ==
  LET digits == <<"0", "1", "2", "3", "4", "5", "6", "7", "8", "9">>
  IN IF n < 10 THEN <<digits[n + 1]>>
     ELSE NumToStr(n \div 10) \o <<digits[(n % 10) + 1]>>

----------------------------------------------------------------------------
(* PlannerService (services/planner.service.ts).                           *)


\* the string 'Issue #'
StrIssueHash ==
  <<"I","s","s","u","e"," ","#">>

\* the string ': '
StrColonSpace ==
  <<":"," ">>

\* the string 'Implement a fix based on the issue description'
DefaultProposedSolution ==
  <<"I","m","p","l","e","m","e","n","t"," ","a"," ","f","i","x"," ","b","a","s","e","d"," ","o","n"," ","t","h","e"," ","i","s","s","u","e"," ","d","e","s","c","r","i","p","t","i","o","n">>

\* the string 'Write unit tests to verify the fix works as expected'
DefaultTestingStrategy ==
  <<"W","r","i","t","e"," ","u","n","i","t"," ","t","e","s","t","s"," ","t","o"," ","v","e","r","i","f","y"," ","t","h","e"," ","f","i","x"," ","w","o","r","k","s"," ","a","s"," ","e","x","p","e","c","t","e","d">>

\* the string 'All tests pass and the issue is resolved'
DefaultSuccessCriteria ==
  <<"A","l","l"," ","t","e","s","t","s"," ","p","a","s","s"," ","a","n","d"," ","t","h","e"," ","i","s","s","u","e"," ","i","s"," ","r","e","s","o","l","v","e","d">>

\* The fixed implementation steps of createResolutionPlan.
CanonicalSteps ==
  << \* 'Understand the issue by analyzing the code'
     <<"U","n","d","e","r","s","t","a","n","d"," ","t","h","e"," ","i","s","s","u","e"," ","b","y"," ","a","n","a","l","y","z","i","n","g"," ","t","h","e"," ","c","o","d","e">>,
     \* 'Create a branch for the fix'
     <<"C","r","e","a","t","e"," ","a"," ","b","r","a","n","c","h"," ","f","o","r"," ","t","h","e"," ","f","i","x">>,
     \* 'Implement necessary changes'
     <<"I","m","p","l","e","m","e","n","t"," ","n","e","c","e","s","s","a","r","y"," ","c","h","a","n","g","e","s">>,
     \* 'Add or update tests'
     <<"A","d","d"," ","o","r"," ","u","p","d","a","t","e"," ","t","e","s","t","s">>,
     \* 'Verify the fix resolves the issue'
     <<"V","e","r","i","f","y"," ","t","h","e"," ","f","i","x"," ","r","e","s","o","l","v","e","s"," ","t","h","e"," ","i","s","s","u","e">>,
     \* 'Create a pull request'
     <<"C","r","e","a","t","e"," ","a"," ","p","u","l","l"," ","r","e","q","u","e","s","t">> >>

\* the string 'index'
StrIndex ==
  <<"i","n","d","e","x">>

\* the string 'main'
StrMain ==
  <<"m","a","i","n">>

\* the string 'app'
StrApp ==
  <<"a","p","p">>

\* the string 'test'
StrTest ==
  <<"t","e","s","t">>

\* the string 'Problem Summary:'
HdrProblemSummary ==
  <<"P","r","o","b","l","e","m"," ","S","u","m","m","a","r","y",":">>

\* the string 'Proposed Solution:'
HdrProposedSolution ==
  <<"P","r","o","p","o","s","e","d"," ","S","o","l","u","t","i","o","n",":">>

\* the string 'Files to Modify:'
HdrFilesToModify ==
  <<"F","i","l","e","s"," ","t","o"," ","M","o","d","i","f","y",":">>

\* the string 'Implementation Steps:'
HdrImplementationSteps ==
  <<"I","m","p","l","e","m","e","n","t","a","t","i","o","n"," ","S","t","e","p","s",":">>

\* the string 'Testing Strategy:'
HdrTestingStrategy ==
  <<"T","e","s","t","i","n","g"," ","S","t","r","a","t","e","g","y",":">>

\* the string 'Success Criteria:'
HdrSuccessCriteria ==
  <<"S","u","c","c","e","s","s"," ","C","r","i","t","e","r","i","a",":">>

\* A FileStructure node without content and without children.
FileNode(path, name) ==
  [type |-> "file", path |-> path, name |-> name,
   hasContent |-> FALSE, content |-> << >>,
   hasChildren |-> FALSE, children |-> << >>]

\* A FileStructure file node whose content was captured.
FileNodeWithContent(path, name, content) ==
  [type |-> "file", path |-> path, name |-> name,
   hasContent |-> TRUE, content |-> content,
   hasChildren |-> FALSE, children |-> << >>]

\* A FileStructure directory node that was recursed into.
DirNode(path, name, children) ==
  [type |-> "dir", path |-> path, name |-> name,
   hasContent |-> FALSE, content |-> << >>,
   hasChildren |-> TRUE, children |-> children]

\* file.name.toLowerCase().split('.').some(part => issueWords.includes(part))
NameIsRelevant(name, issueWords) ==
  LET parts == Split(ToLowerCase(name), ".")
  IN \E k \in 1..Len(parts) : Includes(issueWords, parts[k])

\* issueWords.split(' ').some(word => word.length > 4 &&
\*                                    file.content.toLowerCase().includes(word))
ContentMatches(content, issueWords) ==
  LET words == Split(issueWords, " ")
  IN \E k \in 1..Len(words) :
       /\ Len(words[k]) > 4
       /\ Includes(ToLowerCase(content), words[k])

\* Whether searchFiles pushes this node (a file whose name or content matches).
FileIsRelevant(file, issueWords) ==
  /\ file.type = "file"
  /\ \/ NameIsRelevant(file.name, issueWords)
     \/ /\ file.hasContent
        /\ file.content # << >>
        /\ ContentMatches(file.content, issueWords)

RECURSIVE searchFiles(_, _)
\* The inner searchFiles of findRelevantFiles: the relevant files of a list
\* of nodes in pre-order, descending into children.
searchFiles(files, issueWords) ==
  IF files = << >> THEN << >>
  ELSE LET file == Head(files)
       IN (IF FileIsRelevant(file, issueWords) THEN <<file>> ELSE << >>)
          \o (IF file.hasChildren /\ Len(file.children) > 0
              THEN searchFiles(file.children, issueWords) ELSE << >>)
          \o searchFiles(Tail(files), issueWords)

RECURSIVE commonFiles(_)
\* The fallback of findRelevantFiles: the top-level files whose name contains
\* 'index', 'main' or 'app'.
commonFiles(fileStructure) ==
  IF fileStructure = << >> THEN << >>
  ELSE LET file == Head(fileStructure)
       IN (IF /\ file.type = "file"
              /\ \/ Includes(file.name, StrIndex)
                 \/ Includes(file.name, StrMain)
                 \/ Includes(file.name, StrApp)
           THEN <<file>> ELSE << >>)
          \o commonFiles(Tail(fileStructure))

\* PlannerService.findRelevantFiles.
findRelevantFiles(fileStructure, issueWords) ==
  LET relevantFiles == searchFiles(fileStructure, issueWords)
  IN IF Len(relevantFiles) = 0 THEN commonFiles(fileStructure)
     ELSE relevantFiles

\* createResolutionPlan leaving out the step about tests when it found no
\* file to modify.
createResolutionPlan_NoTestsWithoutFiles(issueInfo) ==
  LET issueWords == ToLowerCase(issueInfo.title \o <<" ">> \o issueInfo.body)
      relevantFiles ==
        findRelevantFiles(issueInfo.codebaseAnalysis.fileStructure, issueWords)
  IN [problemSummary |->
        StrIssueHash \o NumToStr(issueInfo.issueNumber) \o StrColonSpace
          \o issueInfo.title,
      proposedSolution |-> DefaultProposedSolution,
      filesToModify |-> [k \in 1..Len(relevantFiles) |-> relevantFiles[k].path],
      implementationSteps |->
        IF Len(relevantFiles) = 0
        THEN SubSeq(CanonicalSteps, 1, 3) \o SubSeq(CanonicalSteps, 5, 6)
        ELSE CanonicalSteps,
      testingStrategy |-> DefaultTestingStrategy,
      successCriteria |-> DefaultSuccessCriteria]

\* PlannerService.createResolutionPlan (the value it resolves to).
createResolutionPlan(issueInfo) ==
  LET issueWords == ToLowerCase(issueInfo.title \o <<" ">> \o issueInfo.body)
      relevantFiles ==
        findRelevantFiles(issueInfo.codebaseAnalysis.fileStructure, issueWords)
  IN [problemSummary |->
        StrIssueHash \o NumToStr(issueInfo.issueNumber) \o StrColonSpace
          \o issueInfo.title,
      proposedSolution |-> DefaultProposedSolution,
      filesToModify |-> [k \in 1..Len(relevantFiles) |-> relevantFiles[k].path],
      implementationSteps |-> CanonicalSteps,
      testingStrategy |-> DefaultTestingStrategy,
      successCriteria |-> DefaultSuccessCriteria]

\* modifications.match(/<header>(.*?)(?=<nextHeader>|$)/s)[1], given that the
\* header occurs: the text after the first occurrence of the header up to the
\* first later occurrence of nextHeader, or up to the end of the text when
\* there is none.  useNext is FALSE for the pattern /Success Criteria:(.*?)(?=$)/s.
SectionMatch(modifications, header, useNext, nextHeader) ==
  LET start == IndexOfFrom(modifications, header, 1) + Len(header)
      stop  == IF useNext THEN IndexOfFrom(modifications, nextHeader, start) ELSE 0
  IN IF stop = 0 THEN Slice(modifications, start, Len(modifications))
     ELSE Slice(modifications, start, stop - 1)

\* line.replace(/^-\s*/, '')
StripBullet(line) ==
  IF line # << >> /\ Head(line) = "-" THEN TrimStart(Tail(line)) ELSE line

RECURSIVE LeadingDigits(_)
\* The length of the longest prefix of digits.
LeadingDigits(line) ==
  IF line # << >> /\ IsDigit(Head(line)) THEN 1 + LeadingDigits(Tail(line)) ELSE 0

\* line.replace(/^\d+\.\s*/, '')
StripOrdinal(line) ==
  LET d == LeadingDigits(line)
  IN IF d >= 1 /\ d < Len(line) /\ line[d + 1] = "."
     THEN TrimStart(Slice(line, d + 2, Len(line)))
     ELSE line

RECURSIVE NonEmpty(_)
\* Array.prototype.filter(Boolean) on strings: the non-empty ones, in order.
NonEmpty(lines) ==
  IF lines = << >> THEN << >>
  ELSE (IF Head(lines) # << >> THEN <<Head(lines)>> ELSE << >>)
       \o NonEmpty(Tail(lines))

\* match[1].trim().split('\n').map(line => line.replace(/^-\s*/, '').trim())
\*         .filter(Boolean)
ParseFiles(body) ==
  LET lines == Split(Trim(body), "\n")
  IN NonEmpty([k \in 1..Len(lines) |-> Trim(StripBullet(lines[k]))])

\* match[1].trim().split('\n').map(line => line.replace(/^\d+\.\s*/, '').trim())
\*         .filter(Boolean)
ParseSteps(body) ==
  LET lines == Split(Trim(body), "\n")
  IN NonEmpty([k \in 1..Len(lines) |-> Trim(StripOrdinal(lines[k]))])

\* updatePlanWithModifications taking a text without any header as the new
\* problem summary.
updatePlanWithModifications_TextIsSummary(originalPlan, modifications) ==
  LET has(h) == Includes(modifications, h)
      ps == SectionMatch(modifications, HdrProblemSummary, TRUE, HdrProposedSolution)
      so == SectionMatch(modifications, HdrProposedSolution, TRUE, HdrFilesToModify)
      fi == SectionMatch(modifications, HdrFilesToModify, TRUE, HdrImplementationSteps)
      st == SectionMatch(modifications, HdrImplementationSteps, TRUE, HdrTestingStrategy)
      ts == SectionMatch(modifications, HdrTestingStrategy, TRUE, HdrSuccessCriteria)
      sc == SectionMatch(modifications, HdrSuccessCriteria, FALSE, << >>)
  IN [problemSummary |->
        IF has(HdrProblemSummary) /\ Trim(ps) # << >>
        THEN Trim(ps)
        ELSE IF /\ ~has(HdrProblemSummary) /\ ~has(HdrProposedSolution)
                /\ ~has(HdrFilesToModify) /\ ~has(HdrImplementationSteps)
                /\ ~has(HdrTestingStrategy) /\ ~has(HdrSuccessCriteria)
                /\ Trim(modifications) # << >>
             THEN Trim(modifications)
             ELSE originalPlan.problemSummary,
      proposedSolution |->
        IF has(HdrProposedSolution) /\ Trim(so) # << >>
        THEN Trim(so) ELSE originalPlan.proposedSolution,
      filesToModify |->
        IF has(HdrFilesToModify) /\ Trim(fi) # << >>
        THEN ParseFiles(fi) ELSE originalPlan.filesToModify,
      implementationSteps |->
        IF has(HdrImplementationSteps) /\ Trim(st) # << >>
        THEN ParseSteps(st) ELSE originalPlan.implementationSteps,
      testingStrategy |->
        IF has(HdrTestingStrategy) /\ Trim(ts) # << >>
        THEN Trim(ts) ELSE originalPlan.testingStrategy,
      successCriteria |->
        IF has(HdrSuccessCriteria) /\ Trim(sc) # << >>
        THEN Trim(sc) ELSE originalPlan.successCriteria]

\* updatePlanWithModifications filling an empty plan, not a copy of the
\* original plan.
updatePlanWithModifications_FromEmptyPlan(originalPlan, modifications) ==
  LET has(h) == Includes(modifications, h)
      ps == SectionMatch(modifications, HdrProblemSummary, TRUE, HdrProposedSolution)
      so == SectionMatch(modifications, HdrProposedSolution, TRUE, HdrFilesToModify)
      fi == SectionMatch(modifications, HdrFilesToModify, TRUE, HdrImplementationSteps)
      st == SectionMatch(modifications, HdrImplementationSteps, TRUE, HdrTestingStrategy)
      ts == SectionMatch(modifications, HdrTestingStrategy, TRUE, HdrSuccessCriteria)
      sc == SectionMatch(modifications, HdrSuccessCriteria, FALSE, << >>)
  IN [problemSummary |->
        IF has(HdrProblemSummary) /\ Trim(ps) # << >>
        THEN Trim(ps) ELSE << >>,
      proposedSolution |->
        IF has(HdrProposedSolution) /\ Trim(so) # << >>
        THEN Trim(so) ELSE << >>,
      filesToModify |->
        IF has(HdrFilesToModify) /\ Trim(fi) # << >>
        THEN ParseFiles(fi) ELSE << >>,
      implementationSteps |->
        IF has(HdrImplementationSteps) /\ Trim(st) # << >>
        THEN ParseSteps(st) ELSE << >>,
      testingStrategy |->
        IF has(HdrTestingStrategy) /\ Trim(ts) # << >>
        THEN Trim(ts) ELSE << >>,
      successCriteria |->
        IF has(HdrSuccessCriteria) /\ Trim(sc) # << >>
        THEN Trim(sc) ELSE << >>]

\* PlannerService.updatePlanWithModifications (the value it resolves to): a
\* copy of the plan in which each section found in the text, when its
\* trimmed body is not empty, replaces the field.
updatePlanWithModifications(originalPlan, modifications) ==
  LET has(h) == Includes(modifications, h)
      ps == SectionMatch(modifications, HdrProblemSummary, TRUE, HdrProposedSolution)
      so == SectionMatch(modifications, HdrProposedSolution, TRUE, HdrFilesToModify)
      fi == SectionMatch(modifications, HdrFilesToModify, TRUE, HdrImplementationSteps)
      st == SectionMatch(modifications, HdrImplementationSteps, TRUE, HdrTestingStrategy)
      ts == SectionMatch(modifications, HdrTestingStrategy, TRUE, HdrSuccessCriteria)
      sc == SectionMatch(modifications, HdrSuccessCriteria, FALSE, << >>)
  IN [problemSummary |->
        IF has(HdrProblemSummary) /\ Trim(ps) # << >>
        THEN Trim(ps) ELSE originalPlan.problemSummary,
      proposedSolution |->
        IF has(HdrProposedSolution) /\ Trim(so) # << >>
        THEN Trim(so) ELSE originalPlan.proposedSolution,
      filesToModify |->
        IF has(HdrFilesToModify) /\ Trim(fi) # << >>
        THEN ParseFiles(fi) ELSE originalPlan.filesToModify,
      implementationSteps |->
        IF has(HdrImplementationSteps) /\ Trim(st) # << >>
        THEN ParseSteps(st) ELSE originalPlan.implementationSteps,
      testingStrategy |->
        IF has(HdrTestingStrategy) /\ Trim(ts) # << >>
        THEN Trim(ts) ELSE originalPlan.testingStrategy,
      successCriteria |->
        IF has(HdrSuccessCriteria) /\ Trim(sc) # << >>
        THEN Trim(sc) ELSE originalPlan.successCriteria]

----------------------------------------------------------------------------
(* The inputs of a run: the issue URL given to the tool, what the hosting  *)
(* API answers for it, and the texts a user may type as modifications.     *)

\* issue.title of owner/repo#123
TitleLogin ==
  <<"F","i","x"," ","l","o","g","i","n"," ","b","u","g">>

\* issue.body of owner/repo#123
BodyLogin ==
  <<"T","h","e","r","e"," ","i","s"," ","a"," ","b","u","g"," ","i","n"," ","t","h","e"," ","l","o","g","i","n"," ","f","o","r","m"," ","t","h","a","t"," ","p","r","e","v","e","n","t","s"," ","u","s","e","r","s"," ","f","r","o","m"," ","l","o","g","g","i","n","g"," ","i","n">>

\* issue.title of owner/repo#42
TitleShout ==
  <<"F","i","x"," ","l","o","g","i","n"," ","b","u","g","!","!">>

\* the string 'package.json'
NamePackageJson ==
  <<"p","a","c","k","a","g","e",".","j","s","o","n">>

\* the string '{}'
ContentPackageJson ==
  <<"{","}">>

\* the string 'src'
NameSrc ==
  <<"s","r","c">>

\* the string 'src/login.ts'
PathLogin ==
  <<"s","r","c","/","l","o","g","i","n",".","t","s">>

\* the string 'login.ts'
NameLogin ==
  <<"l","o","g","i","n",".","t","s">>

\* the string 'export function login() { /* buggy code */ }'
ContentLogin ==
  <<"e","x","p","o","r","t"," ","f","u","n","c","t","i","o","n"," ","l","o","g","i","n","(",")"," ","{"," ","/","*"," ","b","u","g","g","y"," ","c","o","d","e"," ","*","/"," ","}">>

\* the string 'src/index.ts'
PathIndex ==
  <<"s","r","c","/","i","n","d","e","x",".","t","s">>

\* the string 'index.ts'
NameIndex ==
  <<"i","n","d","e","x",".","t","s">>

\* the string 'export {}'
ContentIndex ==
  <<"e","x","p","o","r","t"," ","{","}">>


\* What getIssueInfo resolves to for https://github.com/owner/repo/issues/123:
\* a TypeScript repository with package.json and src/{login.ts,index.ts}.
IssueInfo123 ==
  [owner |-> "owner", repo |-> "repo", issueNumber |-> 123,
   title |-> TitleLogin, body |-> BodyLogin,
   repoInfo |-> [language |-> "TypeScript", defaultBranch |-> "main"],
   codebaseAnalysis |->
     [fileStructure |->
        << FileNodeWithContent(NamePackageJson, NamePackageJson, ContentPackageJson),
           DirNode(NameSrc, NameSrc,
             << FileNodeWithContent(PathLogin, NameLogin, ContentLogin),
                FileNodeWithContent(PathIndex, NameIndex, ContentIndex) >>) >>,
      buildSystem |-> "npm",
      mainLanguage |-> "TypeScript"]]

\* What getIssueInfo resolves to for https://github.com/owner/repo/issues/42
\* when the root listing cannot be fetched: analyzeCodebase falls back to an
\* empty analysis with build system 'unknown', and a repository without a
\* language is reported as 'Unknown'.
IssueInfo42 ==
  [owner |-> "owner", repo |-> "repo", issueNumber |-> 42,
   title |-> TitleShout, body |-> << >>,
   repoInfo |-> [language |-> "Unknown", defaultBranch |-> "main"],
   codebaseAnalysis |->
     [fileStructure |-> << >>,
      buildSystem |-> "unknown",
      mainLanguage |-> "unknown"]]

\* The issue_url parameters of the runs: two issues and a URL that is not an
\* issue URL (its path has fewer than five parts).
IssueUrls ==
  {"https://github.com/owner/repo/issues/123",
   "https://github.com/owner/repo/issues/42",
   "https://github.com/owner/repo"}

\* GitHubService.parseIssueUrl succeeds: the path is /owner/repo/issues/number.
UrlIsIssueUrl(url) ==
  url \in {"https://github.com/owner/repo/issues/123",
           "https://github.com/owner/repo/issues/42"}

\* The IssueInfo the hosting API yields for a URL.
IssueInfoOf(url) ==
  IF url = "https://github.com/owner/repo/issues/123" THEN IssueInfo123
  ELSE IssueInfo42

\* modification text 'Looks fine'
PatchNoHeader ==
  <<"L","o","o","k","s"," ","f","i","n","e">>

\* modification text ''
PatchEmpty ==
  <<>>

\* modification text 'Files to Modify:\n- src/a.ts\n- src/b.ts'
PatchTwoFiles ==
  <<"F","i","l","e","s"," ","t","o"," ","M","o","d","i","f","y",":","\n","-"," ","s","r","c","/","a",".","t","s","\n","-"," ","s","r","c","/","b",".","t","s">>

\* modification text 'Implementation Steps:\n1. Fix it\n2. Run Tests'
PatchStepsWithTest ==
  <<"I","m","p","l","e","m","e","n","t","a","t","i","o","n"," ","S","t","e","p","s",":","\n","1","."," ","F","i","x"," ","i","t","\n","2","."," ","R","u","n"," ","T","e","s","t","s">>

\* modification text 'Implementation Steps:\n1. Fix it'
PatchStepsNoTest ==
  <<"I","m","p","l","e","m","e","n","t","a","t","i","o","n"," ","S","t","e","p","s",":","\n","1","."," ","F","i","x"," ","i","t">>

\* modification text 'Problem Summary:\nNew\n\nImplementation Steps:\n1. Retest it\n'
PatchSummaryAndSteps ==
  <<"P","r","o","b","l","e","m"," ","S","u","m","m","a","r","y",":","\n","N","e","w","\n","\n","I","m","p","l","e","m","e","n","t","a","t","i","o","n"," ","S","t","e","p","s",":","\n","1","."," ","R","e","t","e","s","t"," ","i","t","\n">>

\* The modification texts a user supplies in the runs.
Patches ==
  {PatchNoHeader, PatchEmpty, PatchTwoFiles, PatchStepsWithTest, PatchStepsNoTest, PatchSummaryAndSteps}


\* The answers a user gives to an approval request: the three offered
\* options, and answers that are none of them.
Responses ==
  {"Approve", "Modify", "Reject", "approve", "Later"}

----------------------------------------------------------------------------
(* The state of one run of resolveGitHubIssueTool.execute and of the       *)
(* development environment it provisions.                                  *)

VARIABLES
  issue_url,       \* params.issue_url
  pc,              \* where execute stands (the await it is suspended at)
  issueInfo,       \* const issueInfo
  plan,            \* const plan
  approvedPlan,    \* let approvedPlan
  approvedObj,     \* which object approvedPlan refers to: "plan" or "updatedPlan"
  modifications,   \* const modifications
  pendingRequest,  \* the requestUserInput call that awaits its answer
  approvals,       \* the approval requests answered so far, with their answers
  progress,        \* the messages passed to context.progress, in order
  errors,          \* the messages passed to context.error, in order
  thrown,          \* the message of the error thrown inside execute's try block
  outcome,         \* "running", "returned" or "threw"
  result,          \* the value execute returned
  stages,          \* per service call of execute: "pending", "called", "returned", "threw"
  workspace,       \* the workspace directory: "absent", "empty", "cloned", "branch"
  container,       \* the container: "none", "created", "running", "stopped", "removed"
  image,           \* the image the container was created from
  branchName,      \* const branchName of setupDevEnvironment
  removeCalls,     \* the number of DockerService.removeContainer calls
  originUrl,       \* the URL of remote 'origin' in the clone's .git/config
  containerEnv,    \* Env of the configuration the container was created with
  committed,       \* whether the commit command succeeded in the workspace
  pushed,          \* whether the working branch was pushed to the remote
  lastExec,        \* what the latest command run in the container did
  implPlan,        \* the plan argument of implementSolution
  stepIdx,         \* the index (1-based) of the loop over implementationSteps
  testResults,     \* const testResults: the value of the final runTests call
  implResult,      \* the value implementSolution resolved to
  log,             \* the calls made so far, in order
  sessions,        \* per concurrent execute call: its issue and where it is
  directories,     \* per workspace path: what the directory holds
  hosting,         \* the repository at the hosting API and the paths that fail
  fetches          \* the octokit.repos.getContent calls of the analysis, in order

vars ==
  <<issue_url, pc, issueInfo, plan, approvedPlan, approvedObj, modifications,
    pendingRequest, approvals, progress, errors, thrown, outcome, result,
    stages, workspace, container, image, branchName, removeCalls, originUrl,
    containerEnv, committed, pushed,
    lastExec, implPlan, stepIdx, testResults, implResult, log, sessions,
    directories, hosting, fetches>>

\* The value of a variable that was not assigned yet.
Undefined ==
  [undefined |-> TRUE]

\* The service calls execute awaits, in the order of its code.
StageNames ==
  {"getIssueInfo", "createResolutionPlan", "setupDevEnvironment",
   "implementSolution", "commentOnIssue"}

Init ==
  /\ issue_url \in IssueUrls
  /\ pc = "start"
  /\ issueInfo = Undefined
  /\ plan = Undefined
  /\ approvedPlan = Undefined
  /\ approvedObj = "none"
  /\ modifications = Undefined
  /\ pendingRequest = Undefined
  /\ approvals = << >>
  /\ progress = << >>
  /\ errors = << >>
  /\ thrown = << >>
  /\ outcome = "running"
  /\ result = Undefined
  /\ stages = [s \in StageNames |-> "pending"]
  /\ workspace = "absent"
  /\ container = "none"
  /\ image = "none"
  /\ branchName = Undefined
  /\ removeCalls = 0
  /\ originUrl = Undefined
  /\ containerEnv = << >>
  /\ committed = FALSE
  /\ pushed = FALSE
  /\ lastExec = "none"
  /\ implPlan = Undefined
  /\ stepIdx = 0
  /\ testResults = Undefined
  /\ implResult = Undefined
  /\ log = << >>
  /\ sessions = << >>
  /\ directories = << >>
  /\ hosting = Undefined
  /\ fetches = << >>

envVars ==
  <<workspace, container, image, branchName, removeCalls, originUrl,
    containerEnv>>

\* What the sessions running side by side share, and the hosting API as the
\* analysis of the codebase meets it; the actions of one session leave them
\* as they are.
serverVars ==
  <<sessions, directories, hosting, fetches>>

gitVars ==
  <<committed, pushed>>

planVars ==
  <<issueInfo, plan, approvedPlan, approvedObj, modifications>>

uiVars ==
  <<pendingRequest, approvals>>

implVars ==
  <<implPlan, stepIdx, testResults>>

returnVars ==
  <<errors, thrown, outcome, result>>

\* An entry of the call log.
Call(name) ==
  [call |-> name, step |-> 0, how |-> "-"]

\* An entry of the call log for the mutation tool or a test run: the step it
\* belongs to (0 for the final test run) and what the command did.
ExecCall(name, i, how) ==
  [call |-> name, step |-> i, how |-> how]

\* Whether a call of this name is in the log.
Called(name) ==
  \E i \in 1..Len(log) : log[i].call = name

\* new Error(`${prefix}: ${error.message}`): error messages are the sequence
\* of their parts, the parts joined by ': ' in the code.
Wrap(prefix, message) ==
  <<prefix>> \o message

\* Catch with the error reported and then thrown on to the caller instead of
\* being returned.
Catch_Rethrows(message) ==
  /\ errors' = Append(errors, Wrap("Error resolving issue", message))
  /\ result' = result
  /\ outcome' = "threw"
  /\ pc' = "done"

\* The catch block of execute: context.error(`Error resolving issue: ...`),
\* then return { success: false, error: <message> }.
Catch(message) ==
  /\ errors' = Append(errors, Wrap("Error resolving issue", message))
  /\ result' = [success |-> FALSE, error |-> message]
  /\ outcome' = "returned"
  /\ pc' = "done"

\* An error with this message is thrown inside the try block of execute.
Throw(message) ==
  /\ thrown' = message
  /\ Catch(message)

\* A service call of execute changes its status.
SetStage(name, status) ==
  stages' = [stages EXCEPT ![name] = status]

----------------------------------------------------------------------------
(* DockerService (services/docker.service.ts) and the command tables of    *)
(* ImplementationService.                                                  *)

\* The characters /[a-z0-9]/ matches.
IsSlugChar(c) ==
  c \in {"a", "b", "c", "d", "e", "f", "g", "h", "i", "j", "k", "l", "m",
         "n", "o", "p", "q", "r", "s", "t", "u", "v", "w", "x", "y", "z",
         "0", "1", "2", "3", "4", "5", "6", "7", "8", "9"}

RECURSIVE SkipRun(_)
\* What follows the run of characters /[^a-z0-9]+/ matches at the start of s.
SkipRun(s) ==
  IF s # << >> /\ ~IsSlugChar(Head(s)) THEN SkipRun(Tail(s)) ELSE s

RECURSIVE ReplaceRuns(_)
\* .replace(/[^a-z0-9]+/g, '-'): every maximal run of other characters
\* becomes one hyphen.
ReplaceRuns(s) ==
  IF s = << >> THEN << >>
  ELSE IF IsSlugChar(Head(s)) THEN <<Head(s)>> \o ReplaceRuns(Tail(s))
       ELSE <<"-">> \o ReplaceRuns(SkipRun(Tail(s)))

\* .replace(/(^-|-$)/g, ''): a hyphen at the start and a hyphen at the end
\* are removed.
StripEdgeHyphens(s) ==
  LET a == IF s # << >> /\ Head(s) = "-" THEN Tail(s) ELSE s
  IN IF a # << >> /\ a[Len(a)] = "-" THEN SubSeq(a, 1, Len(a) - 1) ELSE a

\* The end index of .substring(0, 50).
SlugMaxLength ==
  50

\* ImplementationService.slugify: lower case, runs replaced, edge hyphens
\* removed, and then the first 50 characters.
slugify(text) ==
  LET stripped == StripEdgeHyphens(ReplaceRuns(SubSeq(ToLowerCase(text), 1, Len(text))))
  IN SubSeq(stripped, 1, IF Len(stripped) < SlugMaxLength THEN Len(stripped)
                         ELSE SlugMaxLength)

StrFixIssue ==
  <<"f","i","x","/","i","s","s","u","e","-">>

\* `fix/issue-${issueNumber}-${this.slugify(title)}`
BranchName(issueNumber, title) ==
  StrFixIssue \o NumToStr(issueNumber) \o <<"-">> \o slugify(title)

\* determineDockerImage with the entry for TypeScript missing from the table.
determineDockerImage_NoTypeScript(language) ==
  CASE language = "JavaScript" -> "node:18"
    [] language = "Python" -> "python:3.11"
    [] language = "Java" -> "openjdk:17"
    [] language = "Go" -> "golang:1.20"
    [] language = "Rust" -> "rust:1.68"
    [] language = "PHP" -> "php:8.2"
    [] language = "Ruby" -> "ruby:3.2"
    [] OTHER -> "ubuntu:22.04"

\* DockerService.determineDockerImage: imageMap[language] || 'ubuntu:22.04'.
determineDockerImage(language) ==
  CASE language = "JavaScript" -> "node:18"
    [] language = "TypeScript" -> "node:18"
    [] language = "Python" -> "python:3.11"
    [] language = "Java" -> "openjdk:17"
    [] language = "Go" -> "golang:1.20"
    [] language = "Rust" -> "rust:1.68"
    [] language = "PHP" -> "php:8.2"
    [] language = "Ruby" -> "ruby:3.2"
    [] OTHER -> "ubuntu:22.04"

\* The switch of installDependencies: the install command of a build system,
\* << >> when the build system is not recognized (installation is skipped).
InstallCommand(buildSystem) ==
  CASE buildSystem = "npm" -> <<"npm", "install">>
    [] buildSystem = "yarn" -> <<"yarn", "install">>
    [] buildSystem = "pip" -> <<"pip", "install", "-r", "requirements.txt">>
    [] buildSystem = "bundler" -> <<"bundle", "install">>
    [] buildSystem = "maven" -> <<"mvn", "install", "-DskipTests">>
    [] buildSystem = "gradle" -> <<"./gradlew", "build", "-x", "test">>
    [] buildSystem = "cargo" -> <<"cargo", "build">>
    [] OTHER -> << >>

\* The switch of runTests: the test command of a build system, << >> when the
\* build system is not recognized (the tests are skipped).
TestCommand(buildSystem) ==
  CASE buildSystem = "npm" -> <<"npm", "test">>
    [] buildSystem = "yarn" -> <<"yarn", "test">>
    [] buildSystem = "pip" -> <<"python", "-m", "pytest">>
    [] buildSystem = "bundler" -> <<"bundle", "exec", "rake", "test">>
    [] buildSystem = "maven" -> <<"mvn", "test">>
    [] buildSystem = "gradle" -> <<"./gradlew", "test">>
    [] buildSystem = "cargo" -> <<"cargo", "test">>
    [] OTHER -> << >>

\* What DockerService.execInContainer can do with a command: resolve with
\* exit code 0, resolve with a non-zero exit code, or throw ('Failed to
\* execute command in container: ...').
ExecOutcomes ==
  {"exit 0", "exit 1", "throws"}

\* The message of the error execInContainer throws.
ExecError ==
  Wrap("Failed to execute command in container", <<"exec error">>)

\* What a runTests call can meet: no command at all for an unrecognized build
\* system, else one of the outcomes of the test command.
TestOutcomes(buildSystem) ==
  IF TestCommand(buildSystem) = << >> THEN {"no command"} ELSE ExecOutcomes

\* ImplementationService.runTests: the value it resolves to.  It never
\* throws: an error of the test command is caught and reported as a failure.
runTests(buildSystem, execOutcome) ==
  IF TestCommand(buildSystem) = << >>
  THEN [success |-> TRUE, output |-> "Tests skipped: unknown build system"]
  ELSE IF execOutcome = "throws"
       THEN [success |-> FALSE, output |-> "Error running tests"]
       ELSE [success |-> (execOutcome = "exit 0"), output |-> "stdout stderr"]

\* step.toLowerCase().includes('test')
StepInvolvesTesting(step) ==
  Includes(ToLowerCase(step), StrTest)

\* DockerService.removeContainer(container): container.inspect(), then
\* container.stop() when data.State.Running, then container.remove().  The
\* daemon answers the inspection of a container it no longer has with 404
\* 'no such container', which the catch block rethrows.  No call of it
\* occurs in execute or in ImplementationService.
removeContainer ==
  /\ removeCalls' = removeCalls + 1
  /\ IF container \in {"created", "running", "stopped"}
     THEN /\ log' = log \o <<Call("container.inspect")>>
                        \o (IF container = "running"
                            THEN <<Call("container.stop")>> ELSE << >>)
                        \o <<Call("container.remove")>>
          /\ container' = "removed"
          /\ UNCHANGED thrown
     ELSE /\ log' = Append(log, Call("container.inspect"))
          /\ thrown' = Wrap("Failed to remove container", <<"no such container">>)
          /\ UNCHANGED container

\* GitHubService.createPullRequest: octokit.pulls.create, answering the
\* html_url of the pull request.  No call of it occurs in execute or in
\* implementSolution, so it is part of no next-state relation below.
createPullRequest ==
  /\ log' = Append(log, Call("createPullRequest"))
  /\ implResult' =
       [pullRequestUrl |-> [url |-> "pull/html_url", issue |-> issueInfo.issueNumber],
        commentUrl |-> Undefined]

\* The html_url the hosting API answers when the issue comment is created.
CreatedCommentUrl(info) ==
  [url |-> "issues#issuecomment", issue |-> info.issueNumber]

----------------------------------------------------------------------------
(* resolveGitHubIssueTool.execute, one action per await.                   *)

\* context.progress({ message }).
Progress(message) ==
  progress' = Append(progress, [message |-> message, step |-> 0])

\* Step 1: githubService.getIssueInfo(issue_url).  parseIssueUrl rejects a
\* URL that is not an issue URL; any failing API call is rethrown as
\* 'Failed to fetch issue information: ...'.
GetIssueInfo ==
  /\ pc = "start"
  /\ Progress("Identifying issue information...")
  /\ log' = Append(log, Call("getIssueInfo"))
  /\ \/ /\ ~UrlIsIssueUrl(issue_url)
        /\ Throw(Wrap("Invalid GitHub issue URL", <<issue_url>>))
        /\ SetStage("getIssueInfo", "threw")
        /\ UNCHANGED issueInfo
     \/ /\ UrlIsIssueUrl(issue_url)
        /\ Throw(Wrap("Failed to fetch issue information", <<"API error">>))
        /\ SetStage("getIssueInfo", "threw")
        /\ UNCHANGED issueInfo
     \/ /\ UrlIsIssueUrl(issue_url)
        /\ issueInfo' = IssueInfoOf(issue_url)
        /\ SetStage("getIssueInfo", "returned")
        /\ pc' = "create_plan"
        /\ UNCHANGED returnVars
  /\ UNCHANGED <<serverVars, issue_url, plan, approvedPlan, approvedObj,
                 modifications,
                 uiVars, envVars, gitVars, lastExec, implVars, implResult>>

\* Step 2: plannerService.createResolutionPlan(issueInfo).  With an IssueInfo
\* produced by getIssueInfo nothing in it throws.
CreatePlan ==
  /\ pc = "create_plan"
  /\ Progress("Creating resolution plan...")
  /\ log' = Append(log, Call("createResolutionPlan"))
  /\ plan' = createResolutionPlan(issueInfo)
  /\ SetStage("createResolutionPlan", "returned")
  /\ pc' = "request_approval"
  /\ UNCHANGED <<serverVars, issue_url, issueInfo, approvedPlan, approvedObj,
                 modifications,
                 uiVars, returnVars, envVars, gitVars, lastExec, implVars,
                 implResult>>

\* RequestApproval with the workspace directory cleared ahead of the answer.
RequestApproval_PreparesWorkspace ==
  /\ pc = "request_approval"
  /\ Progress("Waiting for user approval...")
  /\ log' = Append(log, Call("requestUserInput"))
  /\ pendingRequest' = [type |-> "approval",
                        heading |-> "Issue Resolution Plan",
                        plan |-> plan,
                        options |-> <<"Approve", "Modify", "Reject">>]
  /\ workspace' = "empty"
  /\ pc' = "awaiting_approval"
  /\ UNCHANGED <<serverVars, issue_url, planVars, approvals, returnVars,
                 stages, container, image, branchName, removeCalls,
                 originUrl, containerEnv, gitVars, lastExec, implVars,
                 implResult>>

\* Step 3: the first context.requestUserInput, showing the plan.
RequestApproval ==
  /\ pc = "request_approval"
  /\ Progress("Waiting for user approval...")
  /\ log' = Append(log, Call("requestUserInput"))
  /\ pendingRequest' = [type |-> "approval",
                        heading |-> "Issue Resolution Plan",
                        plan |-> plan,
                        options |-> <<"Approve", "Modify", "Reject">>]
  /\ pc' = "awaiting_approval"
  /\ UNCHANGED <<serverVars, issue_url, planVars, approvals, returnVars,
                 stages, envVars,
                 gitVars, lastExec, implVars, implResult>>

\* The record of an answered approval request.
Answered(request, response) ==
  [plan |-> request.plan, options |-> request.options, answer |-> response]

\* AnswerApproval asking again after an answer that is none of the three
\* options, instead of taking it for a rejection.
AnswerApproval_AsksAgain(response) ==
  /\ pc = "awaiting_approval"
  /\ approvals' = Append(approvals, Answered(pendingRequest, response))
  /\ approvedPlan' = plan
  /\ approvedObj' = "plan"
  /\ \/ /\ response = "Approve"
        /\ pendingRequest' = Undefined
        /\ pc' = "setup"
        /\ UNCHANGED <<returnVars, log>>
     \/ /\ response = "Modify"
        /\ pendingRequest' = [type |-> "text"]
        /\ log' = Append(log, Call("requestUserInput"))
        /\ pc' = "awaiting_modifications"
        /\ UNCHANGED returnVars
     \/ /\ response = "Reject"
        /\ pendingRequest' = Undefined
        /\ Throw(<<"Plan rejected by user">>)
        /\ UNCHANGED log
     \/ /\ response \notin {"Approve", "Modify", "Reject"}
        /\ log' = Append(log, Call("requestUserInput"))
        /\ pc' = "awaiting_approval"
        /\ UNCHANGED <<pendingRequest, returnVars>>
  /\ UNCHANGED <<serverVars, issue_url, issueInfo, plan, modifications,
                 progress, stages,
                 envVars, gitVars, lastExec, implVars, implResult>>

\* AnswerApproval with the final else branch lost: only 'Modify' is told
\* apart, every other answer goes on to the setup.
AnswerApproval_NoRejectBranch(response) ==
  /\ pc = "awaiting_approval"
  /\ approvals' = Append(approvals, Answered(pendingRequest, response))
  /\ approvedPlan' = plan
  /\ approvedObj' = "plan"
  /\ \/ /\ response # "Modify"
        /\ pendingRequest' = Undefined
        /\ pc' = "setup"
        /\ UNCHANGED <<returnVars, log>>
     \/ /\ response = "Modify"
        /\ pendingRequest' = [type |-> "text"]
        /\ log' = Append(log, Call("requestUserInput"))
        /\ pc' = "awaiting_modifications"
        /\ UNCHANGED returnVars
  /\ UNCHANGED <<serverVars, issue_url, issueInfo, plan, modifications,
                 progress, stages,
                 envVars, gitVars, lastExec, implVars, implResult>>

\* The answer to the first approval request: 'Approve' goes on, 'Modify' asks
\* for the modification text, anything else throws 'Plan rejected by user'.
AnswerApproval(response) ==
  /\ pc = "awaiting_approval"
  /\ approvals' = Append(approvals, Answered(pendingRequest, response))
  /\ approvedPlan' = plan
  /\ approvedObj' = "plan"
  /\ \/ /\ response = "Approve"
        /\ pendingRequest' = Undefined
        /\ pc' = "setup"
        /\ UNCHANGED <<returnVars, log>>
     \/ /\ response = "Modify"
        /\ pendingRequest' = [type |-> "text"]
        /\ log' = Append(log, Call("requestUserInput"))
        /\ pc' = "awaiting_modifications"
        /\ UNCHANGED returnVars
     \/ /\ response \notin {"Approve", "Modify"}
        /\ pendingRequest' = Undefined
        /\ Throw(<<"Plan rejected by user">>)
        /\ UNCHANGED log
  /\ UNCHANGED <<serverVars, issue_url, issueInfo, plan, modifications,
                 progress, stages,
                 envVars, gitVars, lastExec, implVars, implResult>>

\* AnswerModifications offering 'Modify' again with the updated plan.
AnswerModifications_OffersModify(text) ==
  /\ pc = "awaiting_modifications"
  /\ modifications' = text
  /\ approvedPlan' = updatePlanWithModifications(plan, text)
  /\ approvedObj' = "updatedPlan"
  /\ log' = log \o <<Call("updatePlanWithModifications"), Call("requestUserInput")>>
  /\ pendingRequest' = [type |-> "approval",
                        heading |-> "Updated Issue Resolution Plan",
                        plan |-> approvedPlan',
                        options |-> <<"Approve", "Modify", "Reject">>]
  /\ pc' = "awaiting_updated_approval"
  /\ UNCHANGED <<serverVars, issue_url, issueInfo, plan, approvals, progress,
                 returnVars,
                 stages, envVars, gitVars, lastExec, implVars, implResult>>

\* The modification text arrives: updatePlanWithModifications, then the
\* second approval request, showing the updated plan.
AnswerModifications(text) ==
  /\ pc = "awaiting_modifications"
  /\ modifications' = text
  /\ approvedPlan' = updatePlanWithModifications(plan, text)
  /\ approvedObj' = "updatedPlan"
  /\ log' = log \o <<Call("updatePlanWithModifications"), Call("requestUserInput")>>
  /\ pendingRequest' = [type |-> "approval",
                        heading |-> "Updated Issue Resolution Plan",
                        plan |-> approvedPlan',
                        options |-> <<"Approve", "Reject">>]
  /\ pc' = "awaiting_updated_approval"
  /\ UNCHANGED <<serverVars, issue_url, issueInfo, plan, approvals, progress,
                 returnVars,
                 stages, envVars, gitVars, lastExec, implVars, implResult>>

\* AnswerUpdatedApproval taking 'Modify' as in the first round: it asks for
\* another modification text.
AnswerUpdatedApproval_ModifyAgain(response) ==
  /\ pc = "awaiting_updated_approval"
  /\ approvals' = Append(approvals, Answered(pendingRequest, response))
  /\ \/ /\ response = "Approve"
        /\ pendingRequest' = Undefined
        /\ pc' = "setup"
        /\ UNCHANGED <<returnVars, log>>
     \/ /\ response = "Modify"
        /\ pendingRequest' = [type |-> "text"]
        /\ log' = Append(log, Call("requestUserInput"))
        /\ pc' = "awaiting_modifications"
        /\ UNCHANGED returnVars
     \/ /\ response \notin {"Approve", "Modify"}
        /\ pendingRequest' = Undefined
        /\ Throw(<<"Updated plan rejected by user">>)
        /\ UNCHANGED log
  /\ UNCHANGED <<serverVars, issue_url, planVars, progress, stages, envVars,
                 gitVars,
                 lastExec, implVars, implResult>>

\* AnswerUpdatedApproval with the test turned round: only 'Reject' throws,
\* every other answer goes on to the setup.
AnswerUpdatedApproval_OnlyRejectThrows(response) ==
  /\ pc = "awaiting_updated_approval"
  /\ approvals' = Append(approvals, Answered(pendingRequest, response))
  /\ pendingRequest' = Undefined
  /\ \/ /\ response # "Reject"
        /\ pc' = "setup"
        /\ UNCHANGED returnVars
     \/ /\ response = "Reject"
        /\ Throw(<<"Updated plan rejected by user">>)
  /\ UNCHANGED <<serverVars, issue_url, planVars, progress, log, stages,
                 envVars, gitVars,
                 lastExec, implVars, implResult>>

\* The answer to the second approval request: anything but 'Approve' throws
\* 'Updated plan rejected by user'.
AnswerUpdatedApproval(response) ==
  /\ pc = "awaiting_updated_approval"
  /\ approvals' = Append(approvals, Answered(pendingRequest, response))
  /\ pendingRequest' = Undefined
  /\ \/ /\ response = "Approve"
        /\ pc' = "setup"
        /\ UNCHANGED returnVars
     \/ /\ response # "Approve"
        /\ Throw(<<"Updated plan rejected by user">>)
  /\ UNCHANGED <<serverVars, issue_url, planVars, progress, log, stages,
                 envVars, gitVars,
                 lastExec, implVars, implResult>>

----------------------------------------------------------------------------
(* ImplementationService.setupDevEnvironment, one action per await.        *)

\* SetupFails with the error reported and the session carrying on with the
\* implementation.
SetupFails_CarriesOn(message) ==
  /\ errors' = Append(errors, Wrap("Failed to set up development environment", message))
  /\ UNCHANGED <<thrown, outcome, result>>
  /\ pc' = "implement"
  /\ SetStage("setupDevEnvironment", "threw")

\* The catch block of setupDevEnvironment rethrows as 'Failed to set up
\* development environment: ...'; execute's catch block then returns the
\* failure.  Nothing is released on the way.
SetupFails(message) ==
  /\ Throw(Wrap("Failed to set up development environment", message))
  /\ SetStage("setupDevEnvironment", "threw")

\* Step 4: execute announces the setup and calls setupDevEnvironment.
BeginSetup ==
  /\ pc = "setup"
  /\ Progress("Setting up development environment...")
  /\ log' = Append(log, Call("setupDevEnvironment"))
  /\ SetStage("setupDevEnvironment", "called")
  /\ pc' = "setup_emptyDir"
  /\ UNCHANGED <<serverVars, issue_url, planVars, uiVars, returnVars, envVars,
                 gitVars,
                 lastExec, implVars, implResult>>

\* fs.emptyDir(workspacePath): creates the directory or clears it.
EmptyDir(ok) ==
  /\ pc = "setup_emptyDir"
  /\ log' = Append(log, Call("emptyDir"))
  /\ IF ok
     THEN /\ workspace' = "empty"
          /\ pc' = "setup_clone"
          /\ UNCHANGED <<returnVars, stages>>
     ELSE /\ SetupFails(<<"emptyDir error">>)
          /\ UNCHANGED workspace
  /\ UNCHANGED <<serverVars, issue_url, planVars, uiVars, progress, container,
                 image, branchName, removeCalls, originUrl, containerEnv,
                 gitVars, lastExec, implVars, implResult>>

\* The token execute passes on: params.github_token || config.githubToken.
githubToken ==
  "<github_token>"

\* The URL the repository is cloned from; git keeps it, as given, as the URL
\* of remote 'origin' in the .git/config of the clone.
CloneUrl(info) ==
  [scheme |-> "https", user |-> "x-access-token", password |-> githubToken,
   host |-> "github.com", owner |-> info.owner, repo |-> info.repo]

\* git.clone(url with the token, workspacePath).
Clone(ok) ==
  /\ pc = "setup_clone"
  /\ log' = Append(log, Call("clone"))
  /\ IF ok
     THEN /\ workspace' = "cloned"
          /\ originUrl' = CloneUrl(issueInfo)
          /\ pc' = "setup_branch"
          /\ UNCHANGED <<returnVars, stages>>
     ELSE /\ SetupFails(<<"clone error">>)
          /\ UNCHANGED <<workspace, originUrl>>
  /\ UNCHANGED <<serverVars, issue_url, planVars, uiVars, progress, container,
                 image, branchName, removeCalls, containerEnv, gitVars,
                 lastExec, implVars, implResult>>

\* const branchName = `fix/issue-${issueNumber}-${this.slugify(title)}`, then
\* localGit.checkoutLocalBranch(branchName).
CheckoutBranch(ok) ==
  /\ pc = "setup_branch"
  /\ log' = Append(log, Call("checkoutLocalBranch"))
  /\ IF ok
     THEN /\ workspace' = "branch"
          /\ pc' = "setup_container"
          /\ UNCHANGED <<returnVars, stages>>
     ELSE /\ SetupFails(<<"checkout error">>)
          /\ UNCHANGED workspace
  /\ branchName' = BranchName(issueInfo.issueNumber, issueInfo.title)
  /\ UNCHANGED <<serverVars, issue_url, planVars, uiVars, progress, container,
                 image, removeCalls, originUrl, containerEnv, gitVars,
                 lastExec, implVars, implResult>>

\* env: { GITHUB_TOKEN: githubToken }, which createContainer turns into the
\* Env entries of the container's configuration.
ContainerEnv ==
  << [name |-> "GITHUB_TOKEN", value |-> githubToken] >>

\* What DockerService.createContainer can meet: the image cannot be pulled,
\* the container cannot be created, the created container cannot be started.
CreateOutcomes ==
  {"started", "pull fails", "create fails", "start fails"}

\* dockerService.createContainer({ image: determineDockerImage(language), ... }):
\* pull the image if needed, create the container, start it.
CreateContainer(how) ==
  /\ pc = "setup_container"
  /\ log' = Append(log, Call("createContainer"))
  /\ \/ /\ how = "started"
        /\ image' = determineDockerImage(issueInfo.repoInfo.language)
        /\ containerEnv' = ContainerEnv
        /\ container' = "running"
        /\ pc' = "setup_install"
        /\ UNCHANGED <<returnVars, stages>>
     \/ /\ how = "pull fails"
        /\ SetupFails(Wrap("Failed to create and start container",
                           Wrap("Failed to pull Docker image", <<"pull error">>)))
        /\ UNCHANGED <<image, container, containerEnv>>
     \/ /\ how = "create fails"
        /\ SetupFails(Wrap("Failed to create and start container", <<"create error">>))
        /\ UNCHANGED <<image, container, containerEnv>>
     \/ /\ how = "start fails"
        /\ image' = determineDockerImage(issueInfo.repoInfo.language)
        /\ containerEnv' = ContainerEnv
        /\ container' = "created"
        /\ SetupFails(Wrap("Failed to create and start container", <<"start error">>))
  /\ UNCHANGED <<serverVars, issue_url, planVars, uiVars, progress, workspace,
                 branchName, removeCalls, originUrl, gitVars, lastExec,
                 implVars, implResult>>

\* What installDependencies can meet: no command for an unrecognized build
\* system, else one of the outcomes of the install command.
InstallOutcomes(buildSystem) ==
  IF InstallCommand(buildSystem) = << >> THEN {"no command"} ELSE ExecOutcomes

\* InstallDependencies without its catch block: an error of the install
\* command ends the setup.
InstallDependencies_ErrorAborts(how) ==
  /\ pc = "setup_install"
  /\ how \in InstallOutcomes(issueInfo.codebaseAnalysis.buildSystem)
  /\ log' = Append(log, Call("installDependencies"))
  /\ lastExec' = how
  /\ IF how = "throws"
     THEN SetupFails(ExecError)
     ELSE /\ pc' = "setup_init"
          /\ UNCHANGED <<returnVars, stages>>
  /\ UNCHANGED <<serverVars, issue_url, planVars, uiVars, progress, envVars,
                 gitVars, implVars, implResult>>

\* this.installDependencies(container, issueInfo): whatever the install
\* command does, provisioning goes on.
InstallDependencies(how) ==
  /\ pc = "setup_install"
  /\ how \in InstallOutcomes(issueInfo.codebaseAnalysis.buildSystem)
  /\ log' = Append(log, Call("installDependencies"))
  /\ lastExec' = how
  /\ pc' = "setup_init"
  /\ UNCHANGED <<serverVars, issue_url, planVars, uiVars, progress, returnVars,
                 stages,
                 envVars, gitVars, implVars, implResult>>

\* execInContainer(container, ['bash', '-c', 'codemcp InitProject ...']): its
\* exit code is not looked at, its error is rethrown.  When it resolves,
\* setupDevEnvironment returns the environment.
InitCodemcp(how) ==
  /\ pc = "setup_init"
  /\ log' = Append(log, Call("codemcp InitProject"))
  /\ lastExec' = how
  /\ IF how = "throws"
     THEN SetupFails(ExecError)
     ELSE /\ SetStage("setupDevEnvironment", "returned")
          /\ pc' = "implement"
          /\ UNCHANGED returnVars
  /\ UNCHANGED <<serverVars, issue_url, planVars, uiVars, progress, envVars,
                 gitVars,
                 implVars, implResult>>

----------------------------------------------------------------------------
(* ImplementationService.implementSolution, one action per await.          *)

\* The catch block of implementSolution rethrows as 'Failed to implement
\* solution: ...'; execute's catch block then returns the failure.
ImplementFails(message) ==
  /\ Throw(Wrap("Failed to implement solution", message))
  /\ SetStage("implementSolution", "threw")

\* BeginImplement passing the original plan, not approvedPlan.
BeginImplement_OriginalPlan ==
  /\ pc = "implement"
  /\ Progress("Implementing solution...")
  /\ log' = Append(log, Call("implementSolution"))
  /\ SetStage("implementSolution", "called")
  /\ implPlan' = plan
  /\ stepIdx' = 1
  /\ pc' = "impl_loop"
  /\ UNCHANGED <<serverVars, issue_url, planVars, uiVars, returnVars, envVars,
                 gitVars,
                 lastExec, testResults, implResult>>

\* Step 5: execute announces the implementation and calls implementSolution
\* with the approved plan.
BeginImplement ==
  /\ pc = "implement"
  /\ Progress("Implementing solution...")
  /\ log' = Append(log, Call("implementSolution"))
  /\ SetStage("implementSolution", "called")
  /\ implPlan' = approvedPlan
  /\ stepIdx' = 1
  /\ pc' = "impl_loop"
  /\ UNCHANGED <<serverVars, issue_url, planVars, uiVars, returnVars, envVars,
                 gitVars,
                 lastExec, testResults, implResult>>

\* ImplementStep running the step's tests only when the tool exited with 0.
ImplementStep_TestsOnlyAfterSuccess(how) ==
  /\ pc = "impl_loop"
  /\ stepIdx <= Len(implPlan.implementationSteps)
  /\ progress' = Append(progress, [message |-> "Implementing step", step |-> stepIdx])
  /\ log' = Append(log, ExecCall("codemcp ImplementStep", stepIdx, how))
  /\ lastExec' = how
  /\ IF how = "throws"
     THEN /\ ImplementFails(ExecError)
          /\ UNCHANGED stepIdx
     ELSE /\ IF /\ how = "exit 0"
                /\ StepInvolvesTesting(implPlan.implementationSteps[stepIdx])
             THEN pc' = "impl_step_test" /\ UNCHANGED stepIdx
             ELSE pc' = "impl_loop" /\ stepIdx' = stepIdx + 1
          /\ UNCHANGED <<returnVars, stages>>
  /\ UNCHANGED <<serverVars, issue_url, planVars, uiVars, envVars, gitVars,
                 implPlan,
                 testResults, implResult>>

\* ImplementStep failing fast: a non-zero exit code of the tool is thrown
\* like an error of the call.
ImplementStep_FailFast(how) ==
  /\ pc = "impl_loop"
  /\ stepIdx <= Len(implPlan.implementationSteps)
  /\ progress' = Append(progress, [message |-> "Implementing step", step |-> stepIdx])
  /\ log' = Append(log, ExecCall("codemcp ImplementStep", stepIdx, how))
  /\ lastExec' = how
  /\ IF how # "exit 0"
     THEN /\ ImplementFails(ExecError)
          /\ UNCHANGED stepIdx
     ELSE /\ IF StepInvolvesTesting(implPlan.implementationSteps[stepIdx])
             THEN pc' = "impl_step_test" /\ UNCHANGED stepIdx
             ELSE pc' = "impl_loop" /\ stepIdx' = stepIdx + 1
          /\ UNCHANGED <<returnVars, stages>>
  /\ UNCHANGED <<serverVars, issue_url, planVars, uiVars, envVars, gitVars,
                 implPlan,
                 testResults, implResult>>

\* One pass of the loop over plan.implementationSteps up to its test run:
\* announce the step, run 'codemcp ImplementStep' for it.  A non-zero exit
\* code is only logged, an error of the call is rethrown.
ImplementStep(how) ==
  /\ pc = "impl_loop"
  /\ stepIdx <= Len(implPlan.implementationSteps)
  /\ progress' = Append(progress, [message |-> "Implementing step", step |-> stepIdx])
  /\ log' = Append(log, ExecCall("codemcp ImplementStep", stepIdx, how))
  /\ lastExec' = how
  /\ IF how = "throws"
     THEN /\ ImplementFails(ExecError)
          /\ UNCHANGED stepIdx
     ELSE /\ IF StepInvolvesTesting(implPlan.implementationSteps[stepIdx])
             THEN pc' = "impl_step_test" /\ UNCHANGED stepIdx
             ELSE pc' = "impl_loop" /\ stepIdx' = stepIdx + 1
          /\ UNCHANGED <<returnVars, stages>>
  /\ UNCHANGED <<serverVars, issue_url, planVars, uiVars, envVars, gitVars,
                 implPlan,
                 testResults, implResult>>

\* The test run of a step that involves testing; its result is dropped.
StepTest(how) ==
  /\ pc = "impl_step_test"
  /\ how \in TestOutcomes(issueInfo.codebaseAnalysis.buildSystem)
  /\ log' = Append(log, ExecCall("runTests", stepIdx, how))
  /\ lastExec' = how
  /\ stepIdx' = stepIdx + 1
  /\ pc' = "impl_loop"
  /\ UNCHANGED <<serverVars, issue_url, planVars, uiVars, progress, returnVars,
                 stages,
                 envVars, gitVars, implPlan, testResults, implResult>>

\* FinalTest throwing when the tests did not pass.
FinalTest_ThrowsOnFailure(how) ==
  /\ pc = "impl_loop"
  /\ stepIdx > Len(implPlan.implementationSteps)
  /\ how \in TestOutcomes(issueInfo.codebaseAnalysis.buildSystem)
  /\ log' = Append(log, ExecCall("runTests", 0, how))
  /\ lastExec' = how
  /\ testResults' = runTests(issueInfo.codebaseAnalysis.buildSystem, how)
  /\ IF testResults'.success
     THEN /\ pc' = "impl_commit"
          /\ UNCHANGED <<returnVars, stages>>
     ELSE ImplementFails(<<"Tests failed">>)
  /\ UNCHANGED <<serverVars, issue_url, planVars, uiVars, progress, envVars,
                 gitVars,
                 implPlan, stepIdx, implResult>>

\* The final test run after the loop.
FinalTest(how) ==
  /\ pc = "impl_loop"
  /\ stepIdx > Len(implPlan.implementationSteps)
  /\ how \in TestOutcomes(issueInfo.codebaseAnalysis.buildSystem)
  /\ log' = Append(log, ExecCall("runTests", 0, how))
  /\ lastExec' = how
  /\ testResults' = runTests(issueInfo.codebaseAnalysis.buildSystem, how)
  /\ pc' = "impl_commit"
  /\ UNCHANGED <<serverVars, issue_url, planVars, uiVars, progress, returnVars,
                 stages,
                 envVars, gitVars, implPlan, stepIdx, implResult>>

\* execInContainer(container, ['bash', '-c', 'git config ... && git add . &&
\* git commit -m "Fix #<n>: <title>"']): its exit code is not looked at.
Commit(how) ==
  /\ pc = "impl_commit"
  /\ log' = Append(log, Call("git commit"))
  /\ lastExec' = how
  /\ committed' = (how = "exit 0")
  /\ IF how = "throws"
     THEN ImplementFails(ExecError)
     ELSE /\ pc' = "impl_push"
          /\ UNCHANGED <<returnVars, stages>>
  /\ UNCHANGED <<serverVars, issue_url, planVars, uiVars, progress, envVars,
                 pushed,
                 implVars, implResult>>

\* execInContainer(container, ['bash', '-c', 'git push -u origin <branch>']):
\* its exit code is not looked at.
Push(how) ==
  /\ pc = "impl_push"
  /\ log' = Append(log, Call("git push"))
  /\ lastExec' = how
  /\ pushed' = (how = "exit 0")
  /\ IF how = "throws"
     THEN ImplementFails(ExecError)
     ELSE /\ pc' = "impl_pr"
          /\ UNCHANGED <<returnVars, stages>>
  /\ UNCHANGED <<serverVars, issue_url, planVars, uiVars, progress, envVars,
                 committed,
                 implVars, implResult>>

\* The end of implementSolution: the pull-request body is built, the local
\* git is configured, and the placeholder URLs are returned.
PreparePullRequest(ok) ==
  /\ pc = "impl_pr"
  /\ log' = Append(log, Call("createPullRequestBody"))
  /\ IF ok
     THEN /\ implResult' =
               [pullRequestUrl |->
                  [url |-> "pull/new-pr-for-issue", issue |-> issueInfo.issueNumber],
                commentUrl |->
                  [url |-> "issues#comment-12345", issue |-> issueInfo.issueNumber]]
          /\ SetStage("implementSolution", "returned")
          /\ pc' = "comment"
          /\ UNCHANGED returnVars
     ELSE /\ ImplementFails(<<"git config error">>)
          /\ UNCHANGED implResult
  /\ UNCHANGED <<serverVars, issue_url, planVars, uiVars, progress, envVars,
                 gitVars,
                 lastExec, implVars>>

\* CommentOnIssue returning the commentUrl of implementSolution's result, a
\* placeholder, in place of the URL of the comment it created.
CommentOnIssue_PlaceholderUrl(ok) ==
  /\ pc = "comment"
  /\ Progress("Adding comment to issue...")
  /\ log' = Append(log, Call("commentOnIssue"))
  /\ IF ok
     THEN /\ SetStage("commentOnIssue", "returned")
          /\ result' =
               [success |-> TRUE,
                issue_details |->
                  [owner |-> issueInfo.owner, repo |-> issueInfo.repo,
                   issue_number |-> issueInfo.issueNumber,
                   title |-> issueInfo.title],
                plan |-> approvedPlan,
                pull_request_url |-> implResult.pullRequestUrl,
                comment_url |-> implResult.commentUrl]
          /\ outcome' = "returned"
          /\ pc' = "done"
          /\ UNCHANGED <<errors, thrown>>
     ELSE /\ SetStage("commentOnIssue", "threw")
          /\ Throw(Wrap("Failed to comment on issue", <<"API error">>))
  /\ UNCHANGED <<serverVars, issue_url, planVars, uiVars, envVars, gitVars,
                 lastExec,
                 implVars, implResult>>

\* githubService.commentOnIssue(...), then the success result.
CommentOnIssue(ok) ==
  /\ pc = "comment"
  /\ Progress("Adding comment to issue...")
  /\ log' = Append(log, Call("commentOnIssue"))
  /\ IF ok
     THEN /\ SetStage("commentOnIssue", "returned")
          /\ result' =
               [success |-> TRUE,
                issue_details |->
                  [owner |-> issueInfo.owner, repo |-> issueInfo.repo,
                   issue_number |-> issueInfo.issueNumber,
                   title |-> issueInfo.title],
                plan |-> approvedPlan,
                pull_request_url |-> implResult.pullRequestUrl,
                comment_url |-> CreatedCommentUrl(issueInfo)]
          /\ outcome' = "returned"
          /\ pc' = "done"
          /\ UNCHANGED <<errors, thrown>>
     ELSE /\ SetStage("commentOnIssue", "threw")
          /\ Throw(Wrap("Failed to comment on issue", <<"API error">>))
  /\ UNCHANGED <<serverVars, issue_url, planVars, uiVars, envVars, gitVars,
                 lastExec,
                 implVars, implResult>>

----------------------------------------------------------------------------

Next ==
  \/ GetIssueInfo
  \/ CreatePlan
  \/ RequestApproval
  \/ \E response \in Responses : AnswerApproval(response)
  \/ \E text \in Patches : AnswerModifications(text)
  \/ \E response \in Responses : AnswerUpdatedApproval(response)
  \/ BeginSetup
  \/ \E ok \in BOOLEAN : EmptyDir(ok)
  \/ \E ok \in BOOLEAN : Clone(ok)
  \/ \E ok \in BOOLEAN : CheckoutBranch(ok)
  \/ \E how \in CreateOutcomes : CreateContainer(how)
  \/ \E how \in ExecOutcomes \cup {"no command"} : InstallDependencies(how)
  \/ \E how \in ExecOutcomes : InitCodemcp(how)
  \/ BeginImplement
  \/ \E how \in ExecOutcomes : ImplementStep(how)
  \/ \E how \in ExecOutcomes \cup {"no command"} : StepTest(how)
  \/ \E how \in ExecOutcomes \cup {"no command"} : FinalTest(how)
  \/ \E how \in ExecOutcomes : Commit(how)
  \/ \E how \in ExecOutcomes : Push(how)
  \/ \E ok \in BOOLEAN : PreparePullRequest(ok)
  \/ \E ok \in BOOLEAN : CommentOnIssue(ok)

Spec ==
  Init /\ [][Next]_vars

----------------------------------------------------------------------------
(* GitHubService.detectBuildSystem, and the functions of the services      *)
(* applied to a range of issues, analyses and modification texts.          *)

StrYarnLock ==
  <<"y","a","r","n",".","l","o","c","k">>

StrPomXml ==
  <<"p","o","m",".","x","m","l">>

StrBuildGradle ==
  <<"b","u","i","l","d",".","g","r","a","d","l","e">>

StrRequirementsTxt ==
  <<"r","e","q","u","i","r","e","m","e","n","t","s",".","t","x","t">>

StrSetupPy ==
  <<"s","e","t","u","p",".","p","y">>

StrCargoToml ==
  <<"c","a","r","g","o",".","t","o","m","l">>

StrGemfile ==
  <<"g","e","m","f","i","l","e">>

\* detectBuildSystem going through the entries, not through the manifests:
\* the first entry that is a manifest decides.
detectBuildSystem_FirstEntryWins(fileStructure) ==
  LET nameAt(k) == SubSeq(ToLowerCase(fileStructure[k].name), 1, Len(fileStructure[k].name))
      manifests == {NamePackageJson, StrYarnLock, StrPomXml, StrBuildGradle,
                    StrRequirementsTxt, StrSetupPy, StrCargoToml, StrGemfile}
      found == {k \in 1..Len(fileStructure) : nameAt(k) \in manifests}
      first == CHOOSE k \in found : \A other \in found : k <= other
  IN IF found = {} THEN "unknown"
     ELSE IF nameAt(first) = NamePackageJson THEN "npm"
     ELSE IF nameAt(first) = StrYarnLock THEN "yarn"
     ELSE IF nameAt(first) = StrPomXml THEN "maven"
     ELSE IF nameAt(first) = StrBuildGradle THEN "gradle"
     ELSE IF nameAt(first) \in {StrRequirementsTxt, StrSetupPy} THEN "pip"
     ELSE IF nameAt(first) = StrCargoToml THEN "cargo"
     ELSE "bundler"

\* GitHubService.detectBuildSystem: the first manifest, in the order of the
\* code, that is among the lower-cased names of the entries of fileStructure.
detectBuildSystem(fileStructure) ==
  LET fileNames ==
        {SubSeq(ToLowerCase(fileStructure[k].name), 1, Len(fileStructure[k].name)) :
           k \in 1..Len(fileStructure)}
  IN IF NamePackageJson \in fileNames THEN "npm"
     ELSE IF StrYarnLock \in fileNames THEN "yarn"
     ELSE IF StrPomXml \in fileNames THEN "maven"
     ELSE IF StrBuildGradle \in fileNames THEN "gradle"
     ELSE IF StrRequirementsTxt \in fileNames \/ StrSetupPy \in fileNames THEN "pip"
     ELSE IF StrCargoToml \in fileNames THEN "cargo"
     ELSE IF StrGemfile \in fileNames THEN "bundler"
     ELSE "unknown"

NameYarnLock ==
  <<"y","a","r","n",".","l","o","c","k">>

NamePomXml ==
  <<"p","o","m",".","x","m","l">>

NameBuildGradle ==
  <<"b","u","i","l","d",".","g","r","a","d","l","e">>

NameRequirementsTxt ==
  <<"r","e","q","u","i","r","e","m","e","n","t","s",".","t","x","t">>

NameSetupPy ==
  <<"s","e","t","u","p",".","p","y">>

NameCargoToml ==
  <<"C","a","r","g","o",".","t","o","m","l">>

NameGemfile ==
  <<"G","e","m","f","i","l","e">>

NameReadme ==
  <<"R","E","A","D","M","E",".","m","d">>

PathNestedPackageJson ==
  <<"s","r","c","/","p","a","c","k","a","g","e",".","j","s","o","n">>

\* a title whose slug is longer than 50 characters
TitleDialogOpens ==
  <<"A","p","p","l","i","c","a","t","i","o","n"," ","c","r","a","s","h","e","s"," ","w","h","e","n"," ","t","h","e"," ","s","e","t","t","i","n","g","s"," ","d","i","a","l","o","g"," ","o","p","e","n","s"," ","a","f","t","e","r"," ","l","o","g","i","n">>

\* a title whose slug has a hyphen as its 50th character
TitleDialogPops ==
  <<"A","p","p","l","i","c","a","t","i","o","n"," ","c","r","a","s","h","e","s"," ","w","h","e","n"," ","t","h","e"," ","s","e","t","t","i","n","g","s"," ","d","i","a","l","o","g"," ","p","o","p","s"," ","u","p"," ","t","w","i","c","e">>

\* a title without a letter or digit
TitleSymbols ==
  <<"!","!","!">>

BodyDialog ==
  <<"T","h","e"," ","d","i","a","l","o","g"," ","s","h","o","w","s"," ","u","p"," ","t","w","i","c","e"," ","a","n","d"," ","t","h","e","n"," ","t","h","e"," ","a","p","p","l","i","c","a","t","i","o","n"," ","c","r","a","s","h","e","s">>

\* The codebaseAnalysis.fileStructure of mockIssueInfo in the planner's
\* tests: src/login.ts with its content, src/index.ts without content.
MockFileStructure ==
  << FileNodeWithContent(PathLogin, NameLogin, ContentLogin),
     FileNode(PathIndex, NameIndex) >>

\* The file structures analyzeCodebase captured, in the runs below.
FileStructures ==
  { << >>,
    << FileNodeWithContent(NamePackageJson, NamePackageJson, ContentPackageJson) >>,
    << FileNode(NameRequirementsTxt, NameRequirementsTxt) >>,
    << FileNode(NameReadme, NameReadme) >>,
    << FileNode(NameYarnLock, NameYarnLock),
       FileNodeWithContent(NamePackageJson, NamePackageJson, ContentPackageJson) >>,
    << FileNode(NameGemfile, NameGemfile), FileNode(NamePomXml, NamePomXml) >>,
    << FileNode(NameCargoToml, NameCargoToml), FileNode(NameSetupPy, NameSetupPy) >>,
    << FileNode(NameRequirementsTxt, NameRequirementsTxt),
       FileNode(NameBuildGradle, NameBuildGradle) >>,
    << FileNode(NameGemfile, NameGemfile), FileNode(NameCargoToml, NameCargoToml) >>,
    << FileNode(NameReadme, NameReadme), FileNode(NameYarnLock, NameYarnLock) >>,
    << FileNode(NameGemfile, NameGemfile) >>,
    << DirNode(NameSrc, NameSrc,
         << FileNodeWithContent(PathNestedPackageJson, NamePackageJson,
                                ContentPackageJson) >>) >>,
    MockFileStructure }

\* The issues of the runs below: number, title and body.
Issues ==
  { [issueNumber |-> 123, title |-> TitleLogin, body |-> BodyLogin],
    [issueNumber |-> 42, title |-> TitleShout, body |-> << >>],
    [issueNumber |-> 7, title |-> TitleDialogOpens, body |-> BodyDialog],
    [issueNumber |-> 8, title |-> TitleDialogPops, body |-> BodyDialog],
    [issueNumber |-> 9, title |-> TitleSymbols, body |-> << >>] }

\* modification text with the Problem Summary section only
PatchOnlySummary ==
  <<"P","r","o","b","l","e","m"," ","S","u","m","m","a","r","y",":","\n","U","p","d","a","t","e","d"," ","p","r","o","b","l","e","m"," ","s","u","m","m","a","r","y">>

\* modification text with the six sections in the order of the code
PatchAllSections ==
  <<"\n","P","r","o","b","l","e","m"," ","S","u","m","m","a","r","y",":","\n","U","p","d","a","t","e","d"," ","p","r","o","b","l","e","m"," ","s","u","m","m","a","r","y","\n","\n","P","r","o","p","o","s","e","d"," ","S","o","l","u","t","i","o","n",":","\n","B","e","t","t","e","r"," ","s","o","l","u","t","i","o","n"," ","a","p","p","r","o","a","c","h","\n","\n","F","i","l","e","s"," ","t","o"," ","M","o","d","i","f","y",":","\n","-"," ","s","r","c","/","a",".","t","s","\n","\n","I","m","p","l","e","m","e","n","t","a","t","i","o","n"," ","S","t","e","p","s",":","\n","1","."," ","F","i","r","s","t"," ","i","m","p","r","o","v","e","d"," ","s","t","e","p","\n","2","."," ","S","e","c","o","n","d"," ","i","m","p","r","o","v","e","d"," ","s","t","e","p","\n","\n","T","e","s","t","i","n","g"," ","S","t","r","a","t","e","g","y",":","\n","I","m","p","r","o","v","e","d"," ","t","e","s","t","i","n","g"," ","s","t","r","a","t","e","g","y","\n","\n","S","u","c","c","e","s","s"," ","C","r","i","t","e","r","i","a",":","\n","B","e","t","t","e","r"," ","s","u","c","c","e","s","s"," ","c","r","i","t","e","r","i","a","\n"," "," "," "," "," "," ">>

\* modification text whose header is not in the case of the code
PatchLowerCaseHeader ==
  <<"p","r","o","b","l","e","m"," ","s","u","m","m","a","r","y",":"," ","n","e","w"," ","s","u","m","m","a","r","y">>

\* modification text with a header and a blank body
PatchBlankSection ==
  <<"T","e","s","t","i","n","g"," ","S","t","r","a","t","e","g","y",":"," "," "," ","\n">>

\* modification text with two sections in the reverse order
PatchSectionsReversed ==
  <<"S","u","c","c","e","s","s"," ","C","r","i","t","e","r","i","a",":","\n","I","t"," ","w","o","r","k","s","\n","\n","P","r","o","b","l","e","m"," ","S","u","m","m","a","r","y",":","\n","L","a","t","e","r"," ","s","u","m","m","a","r","y">>

\* The modification texts of the runs below.
\* modification text 'Implementation Steps:\n- Fix it\n- Run tests'
PatchBulletedSteps ==
  <<"I","m","p","l","e","m","e","n","t","a","t","i","o","n"," ","S","t","e","p","s",":","\n","-"," ","F","i","x"," ","i","t","\n","-"," ","R","u","n"," ","t","e","s","t","s">>

\* modification text 'Files to Modify:\n1. src/a.ts\n\n2. src/b.ts'
PatchNumberedFiles ==
  <<"F","i","l","e","s"," ","t","o"," ","M","o","d","i","f","y",":","\n","1","."," ","s","r","c","/","a",".","t","s","\n","\n","2","."," ","s","r","c","/","b",".","t","s">>

AllPatches ==
  Patches \cup {PatchOnlySummary, PatchAllSections, PatchLowerCaseHeader,
                PatchBlankSection, PatchSectionsReversed, PatchBulletedSteps,
                PatchNumberedFiles}

\* What the actions below leave alone.
functionFrame ==
  <<serverVars, issue_url, approvedObj, uiVars, progress, returnVars, stages,
    workspace, container, image, removeCalls, originUrl, containerEnv, gitVars,
    lastExec, implVars, implResult, log>>

\* Nothing was computed yet.
FunctionsInit ==
  /\ issue_url = "https://github.com/owner/repo/issues/123"
  /\ pc = "fn_start"
  /\ issueInfo = Undefined
  /\ plan = Undefined
  /\ approvedPlan = Undefined
  /\ approvedObj = "none"
  /\ modifications = Undefined
  /\ pendingRequest = Undefined
  /\ approvals = << >>
  /\ progress = << >>
  /\ errors = << >>
  /\ thrown = << >>
  /\ outcome = "running"
  /\ result = Undefined
  /\ stages = [s \in StageNames |-> "pending"]
  /\ workspace = "absent"
  /\ container = "none"
  /\ image = "none"
  /\ branchName = Undefined
  /\ removeCalls = 0
  /\ originUrl = Undefined
  /\ containerEnv = << >>
  /\ committed = FALSE
  /\ pushed = FALSE
  /\ lastExec = "none"
  /\ implPlan = Undefined
  /\ stepIdx = 0
  /\ testResults = Undefined
  /\ implResult = Undefined
  /\ log = << >>
  /\ sessions = << >>
  /\ directories = << >>
  /\ hosting = Undefined
  /\ fetches = << >>

\* analyzeCodebase after the structure was built: the build system is
\* detected from it, and getIssueInfo returns the issue with the analysis
\* (of IssueInfo, the fields the functions below read).
DetectBuildSystem(issue, fileStructure) ==
  /\ pc = "fn_start"
  /\ issueInfo' =
       [owner |-> "owner", repo |-> "repo", issueNumber |-> issue.issueNumber,
        title |-> issue.title, body |-> issue.body,
        codebaseAnalysis |->
          [fileStructure |-> fileStructure,
           buildSystem |-> detectBuildSystem(fileStructure)]]
  /\ pc' = "fn_issue"
  /\ UNCHANGED <<plan, approvedPlan, modifications, branchName, functionFrame>>

\* plannerService.createResolutionPlan(issueInfo).
CreateResolutionPlan ==
  /\ pc = "fn_issue"
  /\ plan' = createResolutionPlan(issueInfo)
  /\ pc' = "fn_plan"
  /\ UNCHANGED <<issueInfo, approvedPlan, modifications, branchName, functionFrame>>

\* The branch name of setupDevEnvironment for the issue.
NameBranch ==
  /\ pc = "fn_issue"
  /\ branchName' = BranchName(issueInfo.issueNumber, issueInfo.title)
  /\ pc' = "fn_branch"
  /\ UNCHANGED <<issueInfo, plan, approvedPlan, modifications, functionFrame>>

\* plannerService.updatePlanWithModifications(plan, text).
UpdatePlan(text) ==
  /\ pc = "fn_plan"
  /\ modifications' = text
  /\ approvedPlan' = updatePlanWithModifications(plan, text)
  /\ pc' = "fn_updated"
  /\ UNCHANGED <<issueInfo, plan, branchName, functionFrame>>

\* plannerService.updatePlanWithModifications applied to its own result,
\* with the same text.
UpdatePlanAgain ==
  /\ pc = "fn_updated"
  /\ plan' = approvedPlan
  /\ approvedPlan' = updatePlanWithModifications(approvedPlan, modifications)
  /\ pc' = "fn_updated_again"
  /\ UNCHANGED <<issueInfo, modifications, branchName, functionFrame>>

FunctionsNext ==
  \/ \E issue \in Issues, fileStructure \in FileStructures :
       DetectBuildSystem(issue, fileStructure)
  \/ CreateResolutionPlan
  \/ NameBranch
  \/ \E text \in AllPatches : UpdatePlan(text)
  \/ UpdatePlanAgain

FunctionsSpec ==
  FunctionsInit /\ [][FunctionsNext]_vars

----------------------------------------------------------------------------
(* The container of one environment: the image chosen for the language of   *)
(* the repository, DockerService.createContainer and removeContainer.      *)

\* repoInfo.language || 'Unknown': the language the hosting API reports for
\* the repository, 'Unknown' when it reports none.
Languages ==
  {"JavaScript", "TypeScript", "Python", "Java", "Go", "Rust", "PHP", "Ruby",
   "C++", "C", "C#", "Shell", "Kotlin", "HTML", "Unknown"}

\* How many times the teardown of one environment is asked for.
MaxTeardowns ==
  2

\* No repository was looked at yet.
EnvironmentInit ==
  /\ issue_url = "https://github.com/owner/repo/issues/123"
  /\ pc = "env_start"
  /\ issueInfo = Undefined
  /\ plan = Undefined
  /\ approvedPlan = Undefined
  /\ approvedObj = "none"
  /\ modifications = Undefined
  /\ pendingRequest = Undefined
  /\ approvals = << >>
  /\ progress = << >>
  /\ errors = << >>
  /\ thrown = << >>
  /\ outcome = "running"
  /\ result = Undefined
  /\ stages = [s \in StageNames |-> "pending"]
  /\ workspace = "absent"
  /\ container = "none"
  /\ image = "none"
  /\ branchName = Undefined
  /\ removeCalls = 0
  /\ originUrl = Undefined
  /\ containerEnv = << >>
  /\ committed = FALSE
  /\ pushed = FALSE
  /\ lastExec = "none"
  /\ implPlan = Undefined
  /\ stepIdx = 0
  /\ testResults = Undefined
  /\ implResult = Undefined
  /\ log = << >>
  /\ sessions = << >>
  /\ directories = << >>
  /\ hosting = Undefined
  /\ fetches = << >>

\* getIssueInfo returns the issue of a repository in this language; the
\* workspace is cloned and on its branch, the container comes next.
GetRepoInfo(language) ==
  /\ pc = "env_start"
  /\ issueInfo' = [IssueInfo123 EXCEPT !.repoInfo.language = language]
  /\ workspace' = "branch"
  /\ pc' = "setup_container"
  /\ UNCHANGED <<serverVars, issue_url, plan, approvedPlan, approvedObj,
                 modifications, uiVars, progress, returnVars, stages,
                 container, image, branchName, removeCalls, originUrl,
                 containerEnv, gitVars, lastExec, implVars, implResult, log>>

\* The running container stops (its process ends, or it is stopped from
\* outside): data.State.Running of the next inspection is false.
ContainerStops ==
  /\ pc = "setup_install"
  /\ container = "running"
  /\ container' = "stopped"
  /\ UNCHANGED <<serverVars, issue_url, pc, planVars, uiVars, progress,
                 returnVars, stages, workspace, image, branchName,
                 removeCalls, originUrl, containerEnv, gitVars, lastExec,
                 implVars, implResult, log>>

\* The holder of the container createContainer returned calls
\* removeContainer(container).
Teardown ==
  /\ pc = "setup_install"
  /\ removeCalls < MaxTeardowns
  /\ removeContainer
  /\ UNCHANGED <<serverVars, issue_url, pc, planVars, uiVars, progress,
                 errors, outcome, result, stages, workspace, image,
                 branchName, originUrl, containerEnv, gitVars, lastExec,
                 implVars, implResult>>

EnvironmentNext ==
  \/ \E language \in Languages : GetRepoInfo(language)
  \/ \E how \in CreateOutcomes : CreateContainer(how)
  \/ ContainerStops
  \/ Teardown

EnvironmentSpec ==
  EnvironmentInit /\ [][EnvironmentNext]_vars

----------------------------------------------------------------------------
(* Two execute calls served side by side: each await of setupDevEnvironment *)
(* lets the other call run, and both work in the same development path.    *)

\* The execute calls in progress at the same time.
SessionNames ==
  {"first", "second"}

\* const { owner, repo, issueNumber } = issueInfo of four issues: two of one
\* repository, and one each of the repositories foo/bar-baz and foo-bar/baz.
KeyOwnerRepo123 ==
  [owner |-> <<"o","w","n","e","r">>, repo |-> <<"r","e","p","o">>, issueNumber |-> 123]

KeyOwnerRepo42 ==
  [owner |-> <<"o","w","n","e","r">>, repo |-> <<"r","e","p","o">>, issueNumber |-> 42]

KeyFooAndBarBaz ==
  [owner |-> <<"f","o","o">>, repo |-> <<"b","a","r","-","b","a","z">>, issueNumber |-> 1]

KeyFooBarAndBaz ==
  [owner |-> <<"f","o","o","-","b","a","r">>, repo |-> <<"b","a","z">>, issueNumber |-> 1]

IssueKeys ==
  {KeyOwnerRepo123, KeyOwnerRepo42, KeyFooAndBarBaz, KeyFooBarAndBaz}

\* config.developmentPath, the directory both calls work in.
developmentPath ==
  <<"/","a","p","p","/","w","o","r","k","s","p","a","c","e">>

\* path.join(developmentPath, `${owner}-${repo}-issue-${issueNumber}`).
workspacePath(key) ==
  developmentPath \o <<"/">> \o key.owner \o <<"-">> \o key.repo
    \o <<"-","i","s","s","u","e","-">> \o NumToStr(key.issueNumber)

\* An execute call that has not reached setupDevEnvironment.
IdleSession ==
  [pc |-> "idle", issue |-> Undefined, workspacePath |-> << >>]

\* A directory that does not exist.
AbsentDirectory ==
  [state |-> "absent", writer |-> "nobody", binds |-> {}]

\* Both calls are still before their setup, no workspace exists.
ConcurrentInit ==
  /\ sessions = [s \in SessionNames |-> IdleSession]
  /\ directories = [d \in {workspacePath(key) : key \in IssueKeys} |-> AbsentDirectory]
  /\ hosting = Undefined
  /\ fetches = << >>
  /\ issue_url = "https://github.com/owner/repo/issues/123"
  /\ pc = "serving"
  /\ issueInfo = Undefined
  /\ plan = Undefined
  /\ approvedPlan = Undefined
  /\ approvedObj = "none"
  /\ modifications = Undefined
  /\ pendingRequest = Undefined
  /\ approvals = << >>
  /\ progress = << >>
  /\ errors = << >>
  /\ thrown = << >>
  /\ outcome = "running"
  /\ result = Undefined
  /\ stages = [s \in StageNames |-> "pending"]
  /\ workspace = "absent"
  /\ container = "none"
  /\ image = "none"
  /\ branchName = Undefined
  /\ removeCalls = 0
  /\ originUrl = Undefined
  /\ containerEnv = << >>
  /\ committed = FALSE
  /\ pushed = FALSE
  /\ lastExec = "none"
  /\ implPlan = Undefined
  /\ stepIdx = 0
  /\ testResults = Undefined
  /\ implResult = Undefined
  /\ log = << >>

\* The state of one call alone, which the two calls here leave as it is.
sessionVars ==
  <<issue_url, pc, planVars, uiVars, progress, returnVars, stages, envVars,
    gitVars, lastExec, implVars, implResult, log, hosting, fetches>>

\* Whether the call is between the start of its setup and its return.
InFlight(s) ==
  sessions[s].pc \notin {"idle", "done", "failed"}

\* execute of call s, for the issue of this key, reaches
\* setupDevEnvironment(issueInfo, developmentPath, githubToken): nothing
\* looks for another call working on the same issue or in the same path.
SessionSetup(s, key) ==
  /\ sessions[s].pc = "idle"
  /\ sessions' = [sessions EXCEPT ![s] =
                    [pc |-> "setup_emptyDir", issue |-> key,
                     workspacePath |-> workspacePath(key)]]
  /\ UNCHANGED <<directories, sessionVars>>

\* fs.emptyDir(workspacePath) of call s: whatever the directory holds is
\* deleted.
SessionEmptyDir(s) ==
  /\ sessions[s].pc = "setup_emptyDir"
  /\ directories' = [directories EXCEPT ![sessions[s].workspacePath] =
                       [state |-> "empty", writer |-> s, binds |-> @.binds]]
  /\ sessions' = [sessions EXCEPT ![s].pc = "setup_clone"]
  /\ UNCHANGED sessionVars

\* git.clone(url, workspacePath) of call s: git clones into an empty
\* directory and refuses one that holds something.
SessionClone(s) ==
  /\ sessions[s].pc = "setup_clone"
  /\ IF directories[sessions[s].workspacePath].state = "empty"
     THEN /\ directories' = [directories EXCEPT ![sessions[s].workspacePath] =
                               [state |-> "cloned", writer |-> s, binds |-> @.binds]]
          /\ sessions' = [sessions EXCEPT ![s].pc = "setup_branch"]
     ELSE /\ sessions' = [sessions EXCEPT ![s].pc = "failed"]
          /\ UNCHANGED directories
  /\ UNCHANGED sessionVars

\* simpleGit(workspacePath).checkoutLocalBranch(branchName) of call s: it
\* needs a repository in the directory, whoever cloned it.
SessionCheckoutBranch(s) ==
  /\ sessions[s].pc = "setup_branch"
  /\ IF directories[sessions[s].workspacePath].state \in {"cloned", "branch"}
     THEN /\ directories' = [directories EXCEPT ![sessions[s].workspacePath].state = "branch"]
          /\ sessions' = [sessions EXCEPT ![s].pc = "setup_container"]
     ELSE /\ sessions' = [sessions EXCEPT ![s].pc = "failed"]
          /\ UNCHANGED directories
  /\ UNCHANGED sessionVars

\* createContainer({ image, workdir: workspacePath, env }) of call s: the
\* container binds the workspace path; the setup returns and the
\* implementation works in the directory.
SessionCreateContainer(s) ==
  /\ sessions[s].pc = "setup_container"
  /\ directories' = [directories EXCEPT ![sessions[s].workspacePath].binds = @ \cup {s}]
  /\ sessions' = [sessions EXCEPT ![s].pc = "using"]
  /\ UNCHANGED sessionVars

\* implementSolution and the comment of call s are through: call s returns.
SessionReturns(s) ==
  /\ sessions[s].pc = "using"
  /\ sessions' = [sessions EXCEPT ![s].pc = "done"]
  /\ UNCHANGED <<directories, sessionVars>>

ConcurrentNext ==
  \E s \in SessionNames :
    \/ \E key \in IssueKeys : SessionSetup(s, key)
    \/ SessionEmptyDir(s)
    \/ SessionClone(s)
    \/ SessionCheckoutBranch(s)
    \/ SessionCreateContainer(s)
    \/ SessionReturns(s)

ConcurrentSpec ==
  ConcurrentInit /\ [][ConcurrentNext]_vars

----------------------------------------------------------------------------
(* GitHubService.analyzeCodebase: the file structure of the repository as   *)
(* the hosting API lists it, and the language most of its files are in.     *)

\* The root of the repository, the path '' of the first getContent call.
RootPath ==
  << >>

\* An entry of a listing of the hosting API that is a file; content is the
\* text its base64 content decodes to.
RepoFile(path, name, content) ==
  [type |-> "file", path |-> path, name |-> name, content |-> content,
   entries |-> << >>]

\* An entry of a listing that is a directory; entries is what the listing of
\* its path returns.
RepoDir(path, name, entries) ==
  [type |-> "dir", path |-> path, name |-> name, content |-> << >>,
   entries |-> entries]

\* An entry of a listing that is neither (a symlink, a submodule).
RepoLink(path, name) ==
  [type |-> "symlink", path |-> path, name |-> name, content |-> << >>,
   entries |-> << >>]

\* String.prototype.endsWith.
EndsWith(s, suffix) ==
  /\ Len(s) >= Len(suffix)
  /\ SubSeq(s, Len(s) - Len(suffix) + 1, Len(s)) = suffix

importantDirs ==
  {<<"s","r","c">>, <<"l","i","b">>, <<"a","p","p">>,
   <<"c","o","n","f","i","g">>, <<"t","e","s","t">>, <<"t","e","s","t","s">>,
   <<"s","p","e","c">>, <<"s","c","r","i","p","t","s">>,
   <<".","g","i","t","h","u","b">>}

\* GitHubService.isImportantDirectory: the lower-cased name is one of
\* importantDirs or has 'src' or 'lib' in it.
isImportantDirectory(name) ==
  LET lower == SubSeq(ToLowerCase(name), 1, Len(name))
  IN \/ lower \in importantDirs
     \/ Includes(lower, <<"s","r","c">>)
     \/ Includes(lower, <<"l","i","b">>)

importantFiles ==
  {<<"p","a","c","k","a","g","e",".","j","s","o","n">>,
   <<"p","a","c","k","a","g","e","-","l","o","c","k",".","j","s","o","n">>,
   <<"y","a","r","n",".","l","o","c","k">>,
   <<"t","s","c","o","n","f","i","g",".","j","s","o","n">>,
   <<"t","s","l","i","n","t",".","j","s","o","n">>,
   <<"e","s","l","i","n","t","r","c",".","j","s","o","n">>,
   <<".","e","s","l","i","n","t","r","c",".","j","s">>,
   <<"G","e","m","f","i","l","e">>,
   <<"G","e","m","f","i","l","e",".","l","o","c","k">>,
   <<"r","e","q","u","i","r","e","m","e","n","t","s",".","t","x","t">>,
   <<"s","e","t","u","p",".","p","y">>,
   <<"b","u","i","l","d",".","g","r","a","d","l","e">>,
   <<"p","o","m",".","x","m","l">>,
   <<"C","a","r","g","o",".","t","o","m","l">>,
   <<"D","o","c","k","e","r","f","i","l","e">>,
   <<"d","o","c","k","e","r","-","c","o","m","p","o","s","e",".","y","m","l">>,
   <<"R","E","A","D","M","E",".","m","d">>, <<"L","I","C","E","N","S","E">>}

importantExtensions ==
  {<<".","t","s">>, <<".","j","s">>, <<".","j","s","x">>, <<".","t","s","x">>,
   <<".","p","y">>, <<".","j","a","v","a">>, <<".","r","b">>, <<".","g","o">>,
   <<".","r","s">>}

\* isImportantFile with every file worth reading.
isImportantFile_AnyFile(name) ==
  TRUE

\* GitHubService.isImportantFile: the name, as it is written, is one of
\* importantFiles or ends with one of importantExtensions.
isImportantFile(name) ==
  \/ name \in importantFiles
  \/ \E ext \in importantExtensions : EndsWith(name, ext)

\* The node buildFileStructure makes of an entry before it fetches anything.
StructureNode(item) ==
  [type |-> item.type, path |-> item.path, name |-> item.name,
   hasContent |-> FALSE, content |-> << >>,
   hasChildren |-> FALSE, children |-> << >>]

\* GitHubService.buildFileStructure on a listing: the nodes of its entries in
\* order, and the paths getContent was called with, in order. failing is the
\* set of paths getContent rejects for. The listing of a directory is fetched
\* first and the name looked at after; a rejected fetch is logged and leaves
\* the node as it was made.
RECURSIVE buildFileStructure(_, _)
buildFileStructure(contents, failing) ==
  IF contents = << >>
  THEN [structure |-> << >>, fetches |-> << >>]
  ELSE LET item == Head(contents)
           node == StructureNode(item)
           fetched == item.path \notin failing
           entered == item.type = "dir" /\ fetched /\ isImportantDirectory(item.name)
           below == IF entered
                    THEN buildFileStructure(item.entries, failing)
                    ELSE [structure |-> << >>, fetches |-> << >>]
           first ==
             IF item.type = "dir"
             THEN [node |-> IF entered
                            THEN [node EXCEPT !.hasChildren = TRUE,
                                              !.children = below.structure]
                            ELSE node,
                   fetches |-> <<item.path>> \o below.fetches]
             ELSE IF item.type = "file" /\ isImportantFile(item.name)
             THEN [node |-> IF fetched
                            THEN [node EXCEPT !.hasContent = TRUE,
                                              !.content = item.content]
                            ELSE node,
                   fetches |-> <<item.path>>]
             ELSE [node |-> node, fetches |-> << >>]
           rest == buildFileStructure(Tail(contents), failing)
       IN [structure |-> <<first.node>> \o rest.structure,
           fetches |-> first.fetches \o rest.fetches]

\* getExtension of detectMainLanguage: what follows the last dot, lower-cased
\* and with the dot before it; '' for a name without a dot.
getExtension(filename) ==
  LET parts == Split(filename, ".")
      last == parts[Len(parts)]
  IN IF Len(parts) > 1
     THEN <<".">> \o SubSeq(ToLowerCase(last), 1, Len(last))
     ELSE << >>

\* extensionToLanguage of detectMainLanguage; "" stands for the undefined of
\* an extension that is not a key, which `if (language)` takes as false.
extensionToLanguage(ext) ==

  CASE ext = <<".","t","s">> -> "TypeScript"
    [] ext = <<".","j","s">> -> "JavaScript"
    [] ext = <<".","j","s","x">> -> "JavaScript"
    [] ext = <<".","t","s","x">> -> "TypeScript"
    [] ext = <<".","p","y">> -> "Python"
    [] ext = <<".","r","b">> -> "Ruby"
    [] ext = <<".","j","a","v","a">> -> "Java"
    [] ext = <<".","g","o">> -> "Go"
    [] ext = <<".","r","s">> -> "Rust"
    [] ext = <<".","p","h","p">> -> "PHP"
    [] ext = <<".","c">> -> "C"
    [] ext = <<".","c","p","p">> -> "C++"
    [] ext = <<".","c","s">> -> "C#"
    [] ext = <<".","s","w","i","f","t">> -> "Swift"
    [] ext = <<".","k","t">> -> "Kotlin"
    [] OTHER -> ""

\* languageCounts[language] = (languageCounts[language] || 0) + 1, on the
\* counts kept in the order their languages were first counted, which is the
\* order Object.entries gives them in.
CountOneMore(counts, language) ==
  IF \E i \in 1..Len(counts) : counts[i].language = language
  THEN [i \in 1..Len(counts) |->
          IF counts[i].language = language
          THEN [counts[i] EXCEPT !.count = @ + 1]
          ELSE counts[i]]
  ELSE Append(counts, [language |-> language, count |-> 1])

\* countLanguage of detectMainLanguage: every item in order, a file counted
\* for the language of its extension, the children of an item after it.
RECURSIVE countLanguage(_, _)
countLanguage(structure, counts) ==
  IF structure = << >>
  THEN counts
  ELSE LET item == Head(structure)
           language == IF item.type = "file"
                       THEN extensionToLanguage(getExtension(item.name))
                       ELSE ""
           counted == IF language # ""
                      THEN CountOneMore(counts, language)
                      ELSE counts
           below == IF item.hasChildren
                    THEN countLanguage(item.children, counted)
                    ELSE counted
       IN countLanguage(Tail(structure), below)

\* The loop below with a count as high as the highest so far taking
\* its place.
RECURSIVE MostCounted_OrAsMany(_, _, _)
MostCounted_OrAsMany(entries, maxCount, mainLanguage) ==
  IF entries = << >>
  THEN mainLanguage
  ELSE IF Head(entries).count >= maxCount
       THEN MostCounted_OrAsMany(Tail(entries), Head(entries).count,
                                 Head(entries).language)
       ELSE MostCounted_OrAsMany(Tail(entries), maxCount, mainLanguage)

\* The loop over Object.entries(languageCounts) of detectMainLanguage: a
\* count takes the place of the highest so far only when it is higher.
RECURSIVE MostCounted(_, _, _)
MostCounted(entries, maxCount, mainLanguage) ==
  IF entries = << >>
  THEN mainLanguage
  ELSE IF Head(entries).count > maxCount
       THEN MostCounted(Tail(entries), Head(entries).count,
                        Head(entries).language)
       ELSE MostCounted(Tail(entries), maxCount, mainLanguage)

\* detectMainLanguage returning the last of the languages counted most
\* often.
detectMainLanguage_LastOfTheMostCounted(fileStructure) ==
  MostCounted_OrAsMany(countLanguage(fileStructure, << >>), 0, "Unknown")

\* GitHubService.detectMainLanguage.
detectMainLanguage(fileStructure) ==
  MostCounted(countLanguage(fileStructure, << >>), 0, "Unknown")

\* What analyzeCodebase returns from its catch block.
FallbackAnalysis ==
  [fileStructure |-> << >>, buildSystem |-> "unknown",
   mainLanguage |-> "unknown"]

\* What getIssueInfo returns for issue 123 with the analysis of the codebase.
AnalyzedIssueInfo(analysis) ==
  [owner |-> "owner", repo |-> "repo", issueNumber |-> 123,
   title |-> TitleLogin, body |-> BodyLogin, codebaseAnalysis |-> analysis]

\* A repository in several languages: src with lib in it, docs, a manifest,
\* a picture and a link.
RepoMixed ==
  <<RepoDir(<<"s","r","c">>, <<"s","r","c">>,
        <<RepoFile(<<"s","r","c","/","i","n","d","e","x",".","t","s">>, <<"i","n","d","e","x",".","t","s">>, <<"e","x","p","o","r","t"," ","{","}">>),
        RepoFile(<<"s","r","c","/","u","t","i","l",".","j","s">>, <<"u","t","i","l",".","j","s">>, <<"x">>),
        RepoDir(<<"s","r","c","/","l","i","b">>, <<"l","i","b">>,
            <<RepoFile(<<"s","r","c","/","l","i","b","/","a",".","p","y">>, <<"a",".","p","y">>, <<"x">>)>>),
        RepoFile(<<"s","r","c","/","A","p","p",".","T","S","X">>, <<"A","p","p",".","T","S","X">>, <<"x">>)>>),
    RepoDir(<<"d","o","c","s">>, <<"d","o","c","s">>,
        <<RepoFile(<<"d","o","c","s","/","c","o","n","f",".","p","y">>, <<"c","o","n","f",".","p","y">>, <<"x">>),
        RepoFile(<<"d","o","c","s","/","g","u","i","d","e",".","m","d">>, <<"g","u","i","d","e",".","m","d">>, <<"x">>)>>),
    RepoFile(<<"p","a","c","k","a","g","e",".","j","s","o","n">>, <<"p","a","c","k","a","g","e",".","j","s","o","n">>, <<"{","}">>),
    RepoFile(<<"R","E","A","D","M","E",".","m","d">>, <<"R","E","A","D","M","E",".","m","d">>, <<"#"," ","r">>),
    RepoFile(<<"m","a","i","n",".","p","y">>, <<"m","a","i","n",".","p","y">>, <<"x">>),
    RepoFile(<<"l","o","g","o",".","p","n","g">>, <<"l","o","g","o",".","p","n","g">>, <<"x">>),
    RepoLink(<<"c","u","r","r","e","n","t">>, <<"c","u","r","r","e","n","t">>)>>

\* Two languages with as many files each, the files of the first at the root.
RepoTie ==
  <<RepoFile(<<"a",".","j","s">>, <<"a",".","j","s">>, <<"x">>),
    RepoFile(<<"b",".","t","s">>, <<"b",".","t","s">>, <<"x">>),
    RepoDir(<<"m","y","l","i","b">>, <<"m","y","l","i","b">>,
        <<RepoFile(<<"m","y","l","i","b","/","c",".","t","s">>, <<"c",".","t","s">>, <<"x">>),
        RepoFile(<<"m","y","l","i","b","/","d",".","j","s">>, <<"d",".","j","s">>, <<"x">>)>>)>>

\* Two languages with as many files each, the directory listed first.
RepoDirsFirst ==
  <<RepoDir(<<"s","r","c">>, <<"s","r","c">>,
        <<RepoFile(<<"s","r","c","/","b",".","t","s">>, <<"b",".","t","s">>, <<"x">>),
        RepoFile(<<"s","r","c","/","c",".","t","s">>, <<"c",".","t","s">>, <<"x">>)>>),
    RepoFile(<<"a",".","j","s">>, <<"a",".","j","s">>, <<"x">>),
    RepoFile(<<"d",".","j","s">>, <<"d",".","j","s">>, <<"x">>)>>

\* No file of a language detectMainLanguage knows.
RepoNoLanguage ==
  <<RepoFile(<<"M","a","k","e","f","i","l","e">>, <<"M","a","k","e","f","i","l","e">>, <<"x">>),
    RepoDir(<<"d","o","c","s">>, <<"d","o","c","s">>,
        <<RepoFile(<<"d","o","c","s","/","x",".","m","d">>, <<"x",".","m","d">>, <<"x">>)>>),
    RepoFile(<<"L","I","C","E","N","S","E">>, <<"L","I","C","E","N","S","E">>, <<"M","I","T">>)>>

\* Names in upper case, and a directory that is not entered.
RepoUpperCase ==
  <<RepoDir(<<"S","R","C">>, <<"S","R","C">>,
        <<RepoFile(<<"S","R","C","/","M","a","i","n",".","J","A","V","A">>, <<"M","a","i","n",".","J","A","V","A">>, <<"x">>)>>),
    RepoDir(<<"T","e","s","t","s">>, <<"T","e","s","t","s">>,
        <<RepoFile(<<"T","e","s","t","s","/","t",".","r","b">>, <<"t",".","r","b">>, <<"x">>)>>),
    RepoDir(<<"v","e","n","d","o","r">>, <<"v","e","n","d","o","r">>,
        <<RepoFile(<<"v","e","n","d","o","r","/","v",".","g","o">>, <<"v",".","g","o">>, <<"x">>),
        RepoFile(<<"v","e","n","d","o","r","/","w",".","g","o">>, <<"w",".","g","o">>, <<"x">>)>>),
    RepoFile(<<"G","e","m","f","i","l","e">>, <<"G","e","m","f","i","l","e">>, <<"g","e","m">>)>>

\* The repositories the analysis is run on; the last one is empty.
Repositories ==
  {RepoMixed, RepoTie, RepoDirsFirst, RepoNoLanguage, RepoUpperCase, << >>}

\* The paths getContent may reject for.
FailurePaths ==
  {RootPath, <<"s","r","c">>, <<"s","r","c","/","l","i","b">>,
   <<"d","o","c","s">>, <<"m","y","l","i","b">>,
   <<"p","a","c","k","a","g","e",".","j","s","o","n">>,
   <<"s","r","c","/","i","n","d","e","x",".","t","s">>}

\* The analysis has not begun; any repository, any set of rejected paths.
AnalyzerInit ==
  /\ issue_url = "https://github.com/owner/repo/issues/123"
  /\ pc = "an_start"
  /\ issueInfo = Undefined
  /\ plan = Undefined
  /\ approvedPlan = Undefined
  /\ approvedObj = "none"
  /\ modifications = Undefined
  /\ pendingRequest = Undefined
  /\ approvals = << >>
  /\ progress = << >>
  /\ errors = << >>
  /\ thrown = << >>
  /\ outcome = "running"
  /\ result = Undefined
  /\ stages = [s \in StageNames |-> "pending"]
  /\ workspace = "absent"
  /\ container = "none"
  /\ image = "none"
  /\ branchName = Undefined
  /\ removeCalls = 0
  /\ originUrl = Undefined
  /\ containerEnv = << >>
  /\ committed = FALSE
  /\ pushed = FALSE
  /\ lastExec = "none"
  /\ implPlan = Undefined
  /\ stepIdx = 0
  /\ testResults = Undefined
  /\ implResult = Undefined
  /\ log = << >>
  /\ sessions = << >>
  /\ directories = << >>
  /\ hosting \in [contents : Repositories, failing : SUBSET FailurePaths]
  /\ fetches = << >>

\* What the analysis leaves alone.
analyzerFrame ==
  <<sessions, directories, hosting, issue_url, plan, approvedPlan, approvedObj,
    modifications, uiVars, progress, returnVars, stages, envVars, gitVars,
    lastExec, implVars, implResult, log>>

\* analyzeCodebase asks for the listing of the root; when the call is rejected
\* its catch block returns the fallback and getIssueInfo returns with it.
GetRootContents ==
  /\ pc = "an_start"
  /\ fetches' = <<RootPath>>
  /\ IF RootPath \in hosting.failing
     THEN /\ issueInfo' = AnalyzedIssueInfo(FallbackAnalysis)
          /\ pc' = "an_done"
     ELSE /\ pc' = "an_root"
          /\ UNCHANGED issueInfo
  /\ UNCHANGED analyzerFrame

\* BuildAnalysis with a rejected call anywhere below the root reaching
\* the catch block of analyzeCodebase.
BuildAnalysis_RejectionReachesCatch ==
  /\ pc = "an_root"
  /\ LET built == buildFileStructure(hosting.contents, hosting.failing)
     IN /\ fetches' = fetches \o built.fetches
        /\ issueInfo' =
             IF \E k \in 1..Len(built.fetches) : built.fetches[k] \in hosting.failing
             THEN AnalyzedIssueInfo(FallbackAnalysis)
             ELSE AnalyzedIssueInfo(
                    [fileStructure |-> built.structure,
                     buildSystem |-> detectBuildSystem(built.structure),
                     mainLanguage |-> detectMainLanguage(built.structure)])
  /\ pc' = "an_done"
  /\ UNCHANGED analyzerFrame

\* The rest of analyzeCodebase: the file structure of the root listing, the
\* build system and the main language of that structure; getIssueInfo returns
\* with them.
BuildAnalysis ==
  /\ pc = "an_root"
  /\ LET built == buildFileStructure(hosting.contents, hosting.failing)
     IN /\ fetches' = fetches \o built.fetches
        /\ issueInfo' =
             AnalyzedIssueInfo(
               [fileStructure |-> built.structure,
                buildSystem |-> detectBuildSystem(built.structure),
                mainLanguage |-> detectMainLanguage(built.structure)])
  /\ pc' = "an_done"
  /\ UNCHANGED analyzerFrame

AnalyzerNext ==
  \/ GetRootContents
  \/ BuildAnalysis

AnalyzerSpec ==
  AnalyzerInit /\ [][AnalyzerNext]_vars

----------------------------------------------------------------------------
(* The properties.                                                         *)

\* C1: in every session whose provisioning (setupDevEnvironment) succeeded,
\* the teardown (removeContainer: stop the container if it runs, remove it)
\* has been invoked exactly once when the session returns its result,
\* whether the result is a success or a failure.
C1_TeardownExactlyOnce ==
  (outcome = "returned" /\ stages["setupDevEnvironment"] = "returned")
    => (removeCalls = 1 /\ container = "removed")

\* C2: when the first approval request is answered 'Reject', the session
\* ends with { success: false, error: 'Plan rejected by user' } and neither
\* setupDevEnvironment nor implementSolution is ever called.
C2_RejectEndsInFailure ==
  (approvals # << >> /\ approvals[1].answer = "Reject")
    => /\ pc = "done"
       /\ outcome = "returned"
       /\ result = [success |-> FALSE, error |-> <<"Plan rejected by user">>]
       /\ stages["setupDevEnvironment"] = "pending"
       /\ stages["implementSolution"] = "pending"
       /\ ~Called("setupDevEnvironment")
       /\ ~Called("implementSolution")
       /\ workspace = "absent"
       /\ container = "none"

\* A session whose first approval request was answered 'Reject' has returned.
C2_Witness ==
  /\ approvals # << >>
  /\ approvals[1].answer = "Reject"
  /\ outcome = "returned"

\* C3: setupDevEnvironment is called (and so a workspace, a container, a tool
\* run or a push exists) only if the latest approval request was answered
\* exactly 'Approve' and showed the plan that is carried out.
C3_ProvisioningOnlyAfterApprove ==
  (\/ Called("setupDevEnvironment")
   \/ pc = "setup"
   \/ workspace # "absent"
   \/ container # "none"
   \/ Called("codemcp ImplementStep")
   \/ pushed)
    => /\ approvals # << >>
       /\ approvals[Len(approvals)].answer = "Approve"
       /\ approvals[Len(approvals)].plan = approvedPlan

\* The setup was called after a modification and a second approval.
C3_Witness ==
  /\ Called("setupDevEnvironment")
  /\ Len(approvals) = 2
  /\ approvals[1].answer = "Modify"

\* C4: execute never throws to its caller; an error thrown by any stage is
\* reported once through context.error and returned as
\* { success: false, error: <its message> }.
C4_ErrorsAreReturned ==
  /\ outcome # "threw"
  /\ (pc = "done" => outcome = "returned")
  /\ (thrown # << >>
        => /\ pc = "done"
           /\ outcome = "returned"
           /\ result = [success |-> FALSE, error |-> thrown]
           /\ errors = << Wrap("Error resolving issue", thrown) >>)
  /\ (thrown = << >> => errors = << >>)

\* An error thrown by the step executor was returned.
C4_Witness ==
  /\ thrown # << >>
  /\ stages["implementSolution"] = "threw"
  /\ outcome = "returned"

\* C5: a result with success: true is returned only if getIssueInfo,
\* createResolutionPlan, setupDevEnvironment, implementSolution and
\* commentOnIssue all returned and the latest approval request was answered
\* 'Approve'; it carries the approved plan, the pull-request URL of
\* implementSolution's result and the URL of the created comment.
C5_SuccessOnlyIfAllStagesSucceeded ==
  (outcome = "returned" /\ result.success)
    => /\ \A st \in StageNames : stages[st] = "returned"
       /\ thrown = << >>
       /\ approvals # << >>
       /\ approvals[Len(approvals)].answer = "Approve"
       /\ result.plan = approvals[Len(approvals)].plan
       /\ result.plan = approvedPlan
       /\ result.pull_request_url = implResult.pullRequestUrl
       /\ result.comment_url = CreatedCommentUrl(issueInfo)

\* A session returned success.
C5_Witness ==
  /\ outcome = "returned"
  /\ result.success
  /\ result.plan = plan

\* C6: after 'Modify', a modification text and 'Approve', the plan passed to
\* implementSolution and the plan of the success result are the object
\* returned by updatePlanWithModifications(plan, text), not the original plan.
C6_ModifiedPlanIsUsed ==
  (/\ Len(approvals) = 2
   /\ approvals[1].answer = "Modify"
   /\ approvals[2].answer = "Approve")
    => LET updated == updatePlanWithModifications(plan, modifications)
       IN /\ approvedObj = "updatedPlan"
          /\ approvedPlan = updated
          /\ (stages["implementSolution"] # "pending" => implPlan = updated)
          /\ ((outcome = "returned" /\ result.success) => result.plan = updated)

\* A session that was modified with the two-files text returned success, and
\* its plan differs from the original plan.
C6_Witness ==
  /\ outcome = "returned"
  /\ result.success
  /\ Len(approvals) = 2
  /\ modifications = PatchTwoFiles
  /\ implPlan # plan
  /\ result.plan # plan

\* C7: when provisioning fails, the session returns the environment-setup
\* error, implementSolution is never called, and a container that was
\* already created is stopped and removed before the result is returned.
C7_FailedProvisioningIsTornDown ==
  (outcome = "returned" /\ stages["setupDevEnvironment"] = "threw")
    => /\ result = [success |-> FALSE, error |-> thrown]
       /\ Head(thrown) = "Failed to set up development environment"
       /\ ~Called("implementSolution")
       /\ container \in {"none", "removed"}

\* The step contains "test" in any mix of upper and lower case.
HasTestAnyCase(step) ==
  \E i \in 1..(Len(step) - 3) :
    /\ step[i] \in {"t", "T"}
    /\ step[i + 1] \in {"e", "E"}
    /\ step[i + 2] \in {"s", "S"}
    /\ step[i + 3] \in {"t", "T"}

\* The tool invocations, test runs and commits of the log, in order, without
\* their outcomes.
RECURSIVE ImplCalls(_)
ImplCalls(entries) ==
  IF entries = << >> THEN << >>
  ELSE IF Head(entries).call \in {"codemcp ImplementStep", "runTests", "git commit"}
       THEN << [call |-> Head(entries).call, step |-> Head(entries).step] >>
              \o ImplCalls(Tail(entries))
       ELSE ImplCalls(Tail(entries))

\* The calls the loop over steps is to make from step i on.
RECURSIVE StepCallsFrom(_, _)
StepCallsFrom(steps, i) ==
  IF i > Len(steps) THEN << >>
  ELSE << [call |-> "codemcp ImplementStep", step |-> i] >>
         \o (IF HasTestAnyCase(steps[i])
             THEN << [call |-> "runTests", step |-> i] >>
             ELSE << >>)
         \o StepCallsFrom(steps, i + 1)

\* The steps' calls, then the final test run, then the commit.
ExpectedCalls(steps) ==
  StepCallsFrom(steps, 1)
    \o << [call |-> "runTests", step |-> 0], [call |-> "git commit", step |-> 0] >>

IsPrefix(short, long) ==
  /\ Len(short) <= Len(long)
  /\ \A i \in 1..Len(short) : short[i] = long[i]

NumTestRuns == Cardinality({i \in 1..Len(log) : log[i].call = "runTests"})

\* C8: for a plan of n steps of which k contain "test" in any case, the test
\* suite runs right after the tool call of each such step and before the
\* next step's, and once more after the last step and before the commit:
\* k + 1 runs when the commit is reached, 2 for the canonical plan.
C8_TestRunsFollowTestingSteps ==
  stages["implementSolution"] # "pending"
    => LET steps == implPlan.implementationSteps
           k == Cardinality({i \in 1..Len(steps) : HasTestAnyCase(steps[i])})
       IN /\ IsPrefix(ImplCalls(log), ExpectedCalls(steps))
          /\ (Called("git commit") => NumTestRuns = k + 1)
          /\ ((Called("git commit") /\ steps = CanonicalSteps) => NumTestRuns = 2)

\* The commit was reached for a modified plan whose second step is
\* "Run Tests", after a tool call of that step that exited with 1.
C8_Witness ==
  /\ Called("git commit")
  /\ Len(approvals) = 2
  /\ modifications = PatchStepsWithTest
  /\ NumTestRuns = 2
  /\ \E i \in 1..Len(log) : log[i] = ExecCall("codemcp ImplementStep", 2, "exit 1")

\* The outcomes of the tool invocations of the log, in order.
RECURSIVE ToolCalls(_)
ToolCalls(entries) ==
  IF entries = << >> THEN << >>
  ELSE IF Head(entries).call = "codemcp ImplementStep"
       THEN << Head(entries) >> \o ToolCalls(Tail(entries))
       ELSE ToolCalls(Tail(entries))

\* C9: the tool is invoked once per step, in the order of the plan; all
\* steps were invoked before the final test run and the commit; and a
\* non-zero exit code of an invocation leaves the session running.
C9_EveryStepInvokedOnce ==
  stages["implementSolution"] # "pending"
    => LET tools == ToolCalls(log)
           n == Len(implPlan.implementationSteps)
       IN /\ Len(tools) <= n
          /\ \A j \in 1..Len(tools) : tools[j].step = j
          /\ ((Called("git commit") \/ testResults # Undefined) => Len(tools) = n)
          /\ \A j \in 1..Len(tools) :
               tools[j].how = "exit 1"
                 => \/ j < Len(tools)
                    \/ j = n
                    \/ (outcome = "running" /\ pc \in {"impl_loop", "impl_step_test"})
          /\ ((/\ stages["implementSolution"] = "threw"
               /\ log[Len(log)].call = "codemcp ImplementStep")
                => log[Len(log)].how = "throws")

\* A session returned success although the tool exited with 1 at its first
\* step.
C9_Witness ==
  /\ outcome = "returned"
  /\ result.success
  /\ ToolCalls(log)[1].how = "exit 1"
  /\ Len(ToolCalls(log)) = Len(implPlan.implementationSteps)

C11_ChangeRequestWasCreated ==
  (outcome = "returned" /\ result.success)
    => /\ \E i, j, k \in 1..Len(log) :
            /\ i < j
            /\ j < k
            /\ log[i].call = "git push"
            /\ log[j].call = "createPullRequest"
            /\ log[k].call = "commentOnIssue"
       /\ result.pull_request_url.url # "pull/new-pr-for-issue"

\* C12: a session whose commit command or push command failed (non-zero
\* exit code or exception) ends in a failure carrying the error of
\* implementSolution, and returns no pull-request URL.
C12_FailedPublishIsFatal ==
  (/\ outcome = "returned"
   /\ \/ (Called("git commit") /\ ~committed)
      \/ (Called("git push") /\ ~pushed))
    => /\ result = [success |-> FALSE, error |-> thrown]
       /\ stages["implementSolution"] = "threw"
       /\ implResult = Undefined

\* C13: a session that returned a failure has not pushed the working branch
\* to the remote and has produced no pull-request reference.
C13_FailureLeavesNothingPublished ==
  (outcome = "returned" /\ ~result.success)
    => (~pushed /\ implResult = Undefined)

\* The fields of a plan with the headers of their sections.
SectionHeaders ==
  [problemSummary |-> <<"P","r","o","b","l","e","m"," ","S","u","m","m","a","r","y",":">>,
   proposedSolution |-> <<"P","r","o","p","o","s","e","d"," ","S","o","l","u","t","i","o","n",":">>,
   filesToModify |-> <<"F","i","l","e","s"," ","t","o"," ","M","o","d","i","f","y",":">>,
   implementationSteps |-> <<"I","m","p","l","e","m","e","n","t","a","t","i","o","n"," ","S","t","e","p","s",":">>,
   testingStrategy |-> <<"T","e","s","t","i","n","g"," ","S","t","r","a","t","e","g","y",":">>,
   successCriteria |-> <<"S","u","c","c","e","s","s"," ","C","r","i","t","e","r","i","a",":">>]

\* The header occurs in the text, letter for letter.
Occurs(header, text) ==
  \E i \in 1..(Len(text) - Len(header) + 1) :
    SubSeq(text, i, i + Len(header) - 1) = header

\* updatePlanWithModifications was applied: approvedPlan is its result for
\* plan and modifications.
Updated ==
  pc \in {"fn_updated", "fn_updated_again"}

\* C14: for a text in which none of the six headers occurs (the empty text
\* included), updatePlanWithModifications returns a plan equal to the
\* original in all six fields, and so does applying the text to the result.
C14_NoHeaderPatchIsNoOp ==
  (Updated /\ \A f \in DOMAIN SectionHeaders : ~Occurs(SectionHeaders[f], modifications))
    => /\ DOMAIN approvedPlan = DOMAIN SectionHeaders
       /\ \A f \in DOMAIN SectionHeaders : approvedPlan[f] = plan[f]

\* A text without a header was applied twice to a plan that names files.
C14_Witness ==
  /\ pc = "fn_updated_again"
  /\ modifications = PatchNoHeader
  /\ plan.filesToModify # << >>
  /\ approvedPlan = plan

\* C15: every field whose header does not occur in the text is the
\* original's, and the original plan is still what createResolutionPlan
\* returned; a text with only "Files to Modify:" and two paths yields those
\* two paths and changes no other field, and a text with only
\* "Problem Summary:" changes no other field.
C15_AbsentSectionsKeepTheirFields ==
  Updated
    => /\ \A f \in DOMAIN SectionHeaders :
            ~Occurs(SectionHeaders[f], modifications) => approvedPlan[f] = plan[f]
       /\ (pc = "fn_updated" => plan = createResolutionPlan(issueInfo))
       /\ (modifications = PatchTwoFiles
             => /\ approvedPlan.filesToModify = << <<"s","r","c","/","a",".","t","s">>, <<"s","r","c","/","b",".","t","s">> >>
                /\ \A f \in DOMAIN SectionHeaders \ {"filesToModify"} :
                     approvedPlan[f] = plan[f])
       /\ (modifications = PatchOnlySummary
             => /\ approvedPlan.problemSummary = <<"U","p","d","a","t","e","d"," ","p","r","o","b","l","e","m"," ","s","u","m","m","a","r","y">>
                /\ \A f \in DOMAIN SectionHeaders \ {"problemSummary"} :
                     approvedPlan[f] = plan[f])

\* The two-paths text was applied to a plan that named other files.
C15_Witness ==
  /\ pc = "fn_updated"
  /\ modifications = PatchTwoFiles
  /\ plan.filesToModify # << >>
  /\ approvedPlan.filesToModify # plan.filesToModify
  /\ approvedPlan.problemSummary = plan.problemSummary

\* The least element of a non-empty set of numbers.
Least(S) ==
  CHOOSE n \in S : \A m \in S : n <= m

\* The body of the section of field f in the text, given that its header
\* occurs: what stands between the first occurrence of the header and the
\* next occurrence of any of the six headers, or the end of the text.
OwnSection(text, f) ==
  LET h == SectionHeaders[f]
      at(g) == {i \in 1..(Len(text) - Len(g) + 1) : SubSeq(text, i, i + Len(g) - 1) = g}
      start == Least(at(h)) + Len(h)
      later == UNION {{i \in at(SectionHeaders[g]) : i >= start} : g \in DOMAIN SectionHeaders}
  IN SubSeq(text, start, IF later = {} THEN Len(text) ELSE Least(later) - 1)

\* C16: every section present in the text, with a body that is not blank,
\* sets its field to its own body: the trimmed text up to the next header
\* that occurs or the end (for the two list fields, its lines without their
\* markers), also when the headers between are left out; the text with only
\* "Problem Summary:" and "Implementation Steps:" sets problemSummary to
\* the body of the first alone.
C16_SectionsSetOwnBody ==
  Updated
    => /\ \A f \in {"problemSummary", "proposedSolution", "testingStrategy",
                    "successCriteria"} :
            (Occurs(SectionHeaders[f], modifications)
               /\ Trim(OwnSection(modifications, f)) # << >>)
              => approvedPlan[f] = Trim(OwnSection(modifications, f))
       /\ (Occurs(SectionHeaders["filesToModify"], modifications)
             /\ Trim(OwnSection(modifications, "filesToModify")) # << >>)
            => approvedPlan.filesToModify
                 = ParseFiles(OwnSection(modifications, "filesToModify"))
       /\ (Occurs(SectionHeaders["implementationSteps"], modifications)
             /\ Trim(OwnSection(modifications, "implementationSteps")) # << >>)
            => approvedPlan.implementationSteps
                 = ParseSteps(OwnSection(modifications, "implementationSteps"))
       /\ (modifications = PatchSummaryAndSteps
             => approvedPlan.problemSummary = <<"N","e","w">>)

\* C17: whatever the issue and its analysis, the plan createResolutionPlan
\* returns has the six canonical steps, in their order: understand, branch,
\* implement, test, verify, publish.
C17_PlanHasTheSixCanonicalSteps ==
  pc \in {"fn_plan", "fn_updated"}
    => plan.implementationSteps =
         << <<"U","n","d","e","r","s","t","a","n","d"," ","t","h","e"," ","i","s","s","u","e"," ","b","y"," ","a","n","a","l","y","z","i","n","g"," ","t","h","e"," ","c","o","d","e">>,
            <<"C","r","e","a","t","e"," ","a"," ","b","r","a","n","c","h"," ","f","o","r"," ","t","h","e"," ","f","i","x">>,
            <<"I","m","p","l","e","m","e","n","t"," ","n","e","c","e","s","s","a","r","y"," ","c","h","a","n","g","e","s">>,
            <<"A","d","d"," ","o","r"," ","u","p","d","a","t","e"," ","t","e","s","t","s">>,
            <<"V","e","r","i","f","y"," ","t","h","e"," ","f","i","x"," ","r","e","s","o","l","v","e","s"," ","t","h","e"," ","i","s","s","u","e">>,
            <<"C","r","e","a","t","e"," ","a"," ","p","u","l","l"," ","r","e","q","u","e","s","t">> >>

\* A plan was created for an issue without body and without captured files.
C17_Witness ==
  /\ pc = "fn_plan"
  /\ issueInfo.body = << >>
  /\ issueInfo.codebaseAnalysis.fileStructure = << >>
  /\ plan.filesToModify = << >>
  /\ Len(plan.implementationSteps) = 6

\* C18: for the issue "Fix login bug" of the planner's tests, with
\* src/login.ts and a src/index.ts without content, the name rule selects
\* by whole words of the issue text only, so filesToModify is src/login.ts
\* alone.
C18_LoginIssueSelectsLoginOnly ==
  (/\ pc = "fn_plan"
   /\ issueInfo.title = TitleLogin
   /\ issueInfo.body = BodyLogin
   /\ issueInfo.codebaseAnalysis.fileStructure = MockFileStructure)
    => plan.filesToModify = << PathLogin >>

\* The build systems with their manifests, in the order of priority.
ManifestPriority ==
  << [system |-> "npm", manifests |-> {<<"p","a","c","k","a","g","e",".","j","s","o","n">>}],
     [system |-> "yarn", manifests |-> {<<"y","a","r","n",".","l","o","c","k">>}],
     [system |-> "maven", manifests |-> {<<"p","o","m",".","x","m","l">>}],
     [system |-> "gradle", manifests |-> {<<"b","u","i","l","d",".","g","r","a","d","l","e">>}],
     [system |-> "pip", manifests |-> {<<"r","e","q","u","i","r","e","m","e","n","t","s",".","t","x","t">>,
                                       <<"s","e","t","u","p",".","p","y">>}],
     [system |-> "cargo", manifests |-> {<<"c","a","r","g","o",".","t","o","m","l">>}],
     [system |-> "bundler", manifests |-> {<<"g","e","m","f","i","l","e">>}] >>

\* The lower-cased names of the entries of the captured structure.
CapturedNames ==
  LET fs == issueInfo.codebaseAnalysis.fileStructure
  IN {SubSeq(ToLowerCase(fs[k].name), 1, Len(fs[k].name)) : k \in 1..Len(fs)}

C20_BranchNameIsCleanSlug ==
  pc = "fn_branch"
    => LET prefix == <<"f","i","x","/","i","s","s","u","e","-">> \o NumToStr(issueInfo.issueNumber) \o <<"-">>
           slug == SubSeq(branchName, Len(prefix) + 1, Len(branchName))
       IN /\ Len(branchName) >= Len(prefix)
          /\ SubSeq(branchName, 1, Len(prefix)) = prefix
          /\ Len(slug) <= 50
          /\ \A i \in 1..Len(slug) : IsSlugChar(slug[i]) \/ slug[i] = "-"
          /\ \A i \in 1..(Len(slug) - 1) : ~(slug[i] = "-" /\ slug[i + 1] = "-")
          /\ (slug # << >> => (slug[1] # "-" /\ slug[Len(slug)] # "-"))
          /\ ((issueInfo.issueNumber = 42 /\ issueInfo.title = TitleShout)
                => branchName = <<"f","i","x","/","i","s","s","u","e","-","4","2","-","f","i","x","-","l","o","g","i","n","-","b","u","g">>)

\* C23 as stated: 'Modify' can be answered any number of times; a 'Modify'
\* answered to the updated plan leads to another modification, the session
\* being still in progress.
C23_ModifyAnyNumberOfTimes ==
  (Len(approvals) >= 2 /\ approvals[Len(approvals)].answer = "Modify")
    => /\ outcome = "running"
       /\ pc \in {"awaiting_modifications", "awaiting_updated_approval"}

\* C23, amended: 'Modify' can be answered once.  After the modification the
\* updated plan (the original plan with the one patch applied) is shown with
\* an approval request; a further 'Modify' applies no other patch and ends
\* the session with 'Updated plan rejected by user'.
C23_ModifyOnlyOnce ==
  /\ (approvals # << >> /\ approvals[1].answer = "Modify" /\ pc # "awaiting_modifications")
       => /\ approvedPlan = updatePlanWithModifications(plan, modifications)
          /\ (pc = "awaiting_updated_approval"
                => /\ pendingRequest.type = "approval"
                   /\ pendingRequest.plan = approvedPlan)
  /\ (Len(approvals) >= 2 /\ approvals[Len(approvals)].answer = "Modify")
       => /\ Len(approvals) = 2
          /\ approvals[2].plan = updatePlanWithModifications(plan, modifications)
          /\ pc = "done"
          /\ outcome = "returned"
          /\ result = [success |-> FALSE, error |-> <<"Updated plan rejected by user">>]

\* The updated plan was answered with 'Modify' and the session has returned.
C23_Witness ==
  /\ Len(approvals) = 2
  /\ approvals[1].answer = "Modify"
  /\ approvals[2].answer = "Modify"
  /\ outcome = "returned"

\* How many calls of this name the log holds.
NumCalls(name) ==
  Cardinality({i \in 1..Len(log) : log[i].call = name})

\* C24: after a modification the updated plan is shown with exactly the
\* options Approve and Reject; any answer to it other than 'Approve'
\* ('Reject' and 'Modify' too) ends the session with the failure 'Updated
\* plan rejected by user' and nothing provisioned, so
\* updatePlanWithModifications is called at most once in a session.
C24_SecondRoundIsFinal ==
  /\ NumCalls("updatePlanWithModifications") <= 1
  /\ Len(approvals) <= 2
  /\ (pc = "awaiting_updated_approval"
        => pendingRequest.options = <<"Approve", "Reject">>)
  /\ (Len(approvals) = 2
        => /\ approvals[2].options = <<"Approve", "Reject">>
           /\ NumCalls("updatePlanWithModifications") = 1
           /\ (approvals[2].answer # "Approve"
                 => /\ pc = "done"
                    /\ outcome = "returned"
                    /\ result = [success |-> FALSE,
                                 error |-> <<"Updated plan rejected by user">>]
                    /\ ~Called("setupDevEnvironment")
                    /\ stages["setupDevEnvironment"] = "pending"
                    /\ workspace = "absent"
                    /\ container = "none"))

\* The updated plan was answered with something that is neither 'Approve'
\* nor 'Reject', and the session has returned.
C24_Witness ==
  /\ Len(approvals) = 2
  /\ approvals[2].answer \notin {"Approve", "Reject"}
  /\ NumCalls("updatePlanWithModifications") = 1
  /\ outcome = "returned"

\* C25: a session approved at the first approval request that completes
\* successfully has had exactly five progress notifications from execute
\* itself (those of the loop over the steps, inside implementSolution, not
\* counted).
C25_FiveProgressNotifications ==
  (outcome = "returned" /\ result.success /\ Len(approvals) = 1)
    => Cardinality({i \in 1..Len(progress) : progress[i].step = 0}) = 5

\* The calls execute makes for its stages, in the order of the code.
StageCallNames ==
  <<"getIssueInfo", "createResolutionPlan", "requestUserInput",
    "setupDevEnvironment", "implementSolution", "commentOnIssue">>

\* The place of a stage call in that order.
StageRank(name) ==
  CHOOSE i \in 1..Len(StageCallNames) : StageCallNames[i] = name

\* The stage calls of the log, in the order they were made.
StageCalls ==
  SelectSeq(log, LAMBDA e : \E i \in 1..Len(StageCallNames) : StageCallNames[i] = e.call)

\* The service calls among them.
ServiceStages ==
  <<"getIssueInfo", "createResolutionPlan", "setupDevEnvironment",
    "implementSolution", "commentOnIssue">>

\* C29: in a session the stage calls are made in the order getIssueInfo,
\* createResolutionPlan, approval request(s), setupDevEnvironment,
\* implementSolution, commentOnIssue, each service at most once and only
\* when the one before it has returned (the setup only after an 'Approve'),
\* never two at a time; once a stage has thrown the session is over and no
\* later stage is called.
C29_StagesInStrictOrder ==
  /\ \A i \in 1..(Len(StageCalls) - 1) :
       StageRank(StageCalls[i].call) <= StageRank(StageCalls[i + 1].call)
  /\ \A k \in 1..Len(ServiceStages) :
       /\ NumCalls(ServiceStages[k]) <= 1
       /\ (stages[ServiceStages[k]] # "pending") = Called(ServiceStages[k])
       /\ (k > 1 /\ Called(ServiceStages[k]))
            => stages[ServiceStages[k - 1]] = "returned"
       /\ stages[ServiceStages[k]] = "called"
            => \A j \in 1..Len(ServiceStages) :
                 j # k => stages[ServiceStages[j]] # "called"
       /\ stages[ServiceStages[k]] = "threw"
            => /\ pc = "done"
               /\ outcome = "returned"
               /\ \A j \in (k + 1)..Len(ServiceStages) :
                    /\ stages[ServiceStages[j]] = "pending"
                    /\ ~Called(ServiceStages[j])
  /\ Called("requestUserInput") => stages["createResolutionPlan"] = "returned"
  /\ Called("setupDevEnvironment")
       => /\ approvals # << >>
          /\ approvals[Len(approvals)].answer = "Approve"

\* All five services were called and have returned.
C29_Witness ==
  /\ \A k \in 1..Len(ServiceStages) : stages[ServiceStages[k]] = "returned"
  /\ Len(StageCalls) >= 6
  /\ outcome = "returned"

C28_TokenIsNotPersisted ==
  outcome = "returned"
    => /\ \/ workspace = "absent"
          \/ originUrl = Undefined
          \/ originUrl.password # githubToken
       /\ \/ container \in {"none", "removed"}
          \/ \A i \in 1..Len(containerEnv) : containerEnv[i].value # githubToken

\* Whether the error last thrown is the one of removeContainer.
RemovalFailed ==
  thrown # << >> /\ Head(thrown) = "Failed to remove container"

\* C26: removeContainer is idempotent: it stops the container only if it
\* runs, then removes it, and a second call for an environment that was
\* torn down already completes without an error and changes nothing.
C26_TeardownIsIdempotent ==
  /\ removeCalls >= 1 => container = "removed"
  /\ NumCalls("container.stop") <= 1
  /\ removeCalls >= 2 => ~RemovalFailed

\* The image each language has.
ImageOf(language) ==
  CASE language \in {"JavaScript", "TypeScript"} -> "node:18"
    [] language = "Python" -> "python:3.11"
    [] language = "Java" -> "openjdk:17"
    [] language = "Go" -> "golang:1.20"
    [] language = "Rust" -> "rust:1.68"
    [] language = "PHP" -> "php:8.2"
    [] language = "Ruby" -> "ruby:3.2"
    [] OTHER -> "ubuntu:22.04"

C21_DifferentIssuesDifferentWorkspaces ==
  /\ \A s, t \in SessionNames :
       (s # t /\ InFlight(s) /\ InFlight(t) /\ sessions[s].issue # sessions[t].issue)
         => sessions[s].workspacePath # sessions[t].workspacePath
  /\ \A s, t \in SessionNames :
       (sessions[s].pc = "using" /\ sessions[t].pc # "idle"
          /\ sessions[s].issue # sessions[t].issue)
         => /\ directories[sessions[s].workspacePath].writer = s
            /\ directories[sessions[s].workspacePath].binds = {s}

\* C22: at most one session per issue key is in progress at a time: while a
\* session is between its provisioning and its return, no second session
\* for the same issue clears or clones again the workspace directory the
\* first one works in.
C22_OneSessionPerIssue ==
  /\ \A s, t \in SessionNames :
       (s # t /\ InFlight(s) /\ InFlight(t))
         => sessions[s].issue # sessions[t].issue
  /\ \A s, t \in SessionNames :
       (s # t /\ sessions[s].pc = "using" /\ sessions[t].pc # "idle"
          /\ sessions[s].issue = sessions[t].issue)
         => /\ directories[sessions[s].workspacePath].state = "branch"
            /\ directories[sessions[s].workspacePath].writer = s

\* C31: whenever a request for user input is pending (the first approval,
\* the modification text, the second approval) no workspace directory was
\* created or cleared and no container exists for the session, so nothing
\* is to be torn down if the session ends there.
C31_NoEnvironmentWhileInputPending ==
  /\ (pendingRequest # Undefined)
       = (pc \in {"awaiting_approval", "awaiting_modifications",
                  "awaiting_updated_approval"})
  /\ pendingRequest # Undefined
       => /\ workspace = "absent"
          /\ container = "none"
          /\ image = "none"
          /\ originUrl = Undefined
          /\ containerEnv = << >>
          /\ stages["setupDevEnvironment"] = "pending"
          /\ ~Called("setupDevEnvironment")
          /\ ~Called("emptyDir")
          /\ ~Called("createContainer")

\* The request for the modification text is pending.
C31_Witness ==
  /\ pc = "awaiting_modifications"
  /\ pendingRequest = [type |-> "text"]

\* The call made last.
LastCall ==
  log[Len(log)].call

\* C32 as stated: only a failure of the clone, of the branch checkout or of
\* the container creation or start makes setupDevEnvironment fail; neither
\* the dependency installation nor the initialisation of the mutation tool
\* ever does.
C32_OnlyCloneBranchContainerAbort ==
  /\ stages["setupDevEnvironment"] = "threw"
       => LastCall \in {"clone", "checkoutLocalBranch", "createContainer"}
  /\ (log # << >> /\ LastCall \in {"installDependencies", "codemcp InitProject"})
       => stages["setupDevEnvironment"] # "threw"

\* C32, amended: setupDevEnvironment fails when clearing the workspace, the
\* clone, the branch checkout, the container creation or start, or the call
\* that initialises the mutation tool throws.  A failing dependency
\* installation (non-zero exit or exception), an unrecognized build system
\* and a non-zero exit of the initialisation never abort it.
C32_InstallNeverAbortsProvisioning ==
  /\ stages["setupDevEnvironment"] = "threw"
       => /\ LastCall \in {"emptyDir", "clone", "checkoutLocalBranch",
                           "createContainer", "codemcp InitProject"}
          /\ (LastCall = "codemcp InitProject" => lastExec = "throws")
  /\ (log # << >> /\ LastCall = "installDependencies")
       => /\ pc = "setup_init"
          /\ outcome = "running"
          /\ stages["setupDevEnvironment"] = "called"
  /\ (log # << >> /\ LastCall = "codemcp InitProject" /\ lastExec # "throws")
       => /\ pc = "implement"
          /\ stages["setupDevEnvironment"] = "returned"

\* The install command threw and the setup goes on to the initialisation.
C32_Witness ==
  /\ pc = "setup_init"
  /\ lastExec = "throws"
  /\ stages["setupDevEnvironment"] = "called"

\* The places in progress of the notifications of the steps.
StepNotifications ==
  {i \in 1..Len(progress) : progress[i].step # 0}

\* C34: a progress notification is emitted before the provisioning starts,
\* before the tool is invoked for each implementation step (one per step,
\* in the order of the steps), and before the publish stage (commit and
\* push) begins.
C34_ProgressBeforeEachPhase ==
  /\ Called("setupDevEnvironment")
       => \E i \in 1..Len(progress) :
            progress[i].message = "Setting up development environment..."
  /\ \A k \in 1..Len(log) :
       log[k].call = "codemcp ImplementStep"
         => \E i \in StepNotifications : progress[i].step = log[k].step
  /\ \A i, j \in StepNotifications : i < j => progress[i].step < progress[j].step
  /\ (Called("git commit") /\ ~Called("commentOnIssue"))
       => /\ progress[Len(progress)].step = 0
          /\ progress[Len(progress)].message # "Implementing solution..."

\* The entry a line of a list section stands for: the line without the
\* bullet or the ordinal it starts with, whichever it carries.
ListEntry(line) ==
  IF line # << >> /\ Head(line) = "-"
  THEN Trim(StripBullet(line))
  ELSE Trim(StripOrdinal(line))

\* The entries of the body of a list section: one per line that is not
\* blank, in the order of the lines.
ListEntries(body) ==
  LET lines == Split(Trim(body), "\n")
      kept == SelectSeq(lines, LAMBDA line : Trim(line) # << >>)
  IN [k \in 1..Len(kept) |-> ListEntry(Trim(kept[k]))]

\* C33: in both list fields (Files to Modify, Implementation Steps) every
\* line of the section body that is not blank becomes one entry, in order,
\* without its leading bullet ("- ") or leading ordinal ("N. "), whichever
\* of the two it carries; blank lines give no entry.  (Stated for the texts
\* whose only section is the list.)
C33_ListLinesLoseTheirMarkers ==
  \A f \in {"filesToModify", "implementationSteps"} :
    (/\ Updated
     /\ Occurs(SectionHeaders[f], modifications)
     /\ \A g \in DOMAIN SectionHeaders :
          g # f => ~Occurs(SectionHeaders[g], modifications)
     /\ Trim(OwnSection(modifications, f)) # << >>)
      => approvedPlan[f] = ListEntries(OwnSection(modifications, f))

\* Whether structure holds a node for every entry of the listing contents, in
\* the order of the listing, with a rejected path costing only what was asked
\* for at that path: a directory whose listing was rejected has no children,
\* a file whose content was rejected has no content, and whatever was entered
\* or read without a rejection is there.
RECURSIVE NodesRemain(_, _, _)
NodesRemain(structure, contents, failing) ==
  /\ Len(structure) = Len(contents)
  /\ \A k \in 1..Len(contents) :
       LET node == structure[k]
           item == contents[k]
       IN /\ node.type = item.type
          /\ node.path = item.path
          /\ node.name = item.name
          /\ item.path \in failing => ~node.hasChildren /\ ~node.hasContent
          /\ (item.path \notin failing /\ item.type = "dir"
                /\ isImportantDirectory(item.name))
               => node.hasChildren
                    /\ NodesRemain(node.children, item.entries, failing)
          /\ (item.path \notin failing /\ item.type = "file"
                /\ isImportantFile(item.name))
               => node.hasContent /\ node.content = item.content

\* C35: a getContent call rejected during the analysis of the codebase, for
\* the root listing, the listing of a directory or the content of a file,
\* never makes getIssueInfo fail: it returns an issue with an analysis, which
\* is the empty fallback when the root listing was rejected and otherwise
\* holds every node that could still be reached, the directory whose listing
\* was rejected without children and the file whose content was rejected
\* without content.
C35_RejectedFetchNeverFailsTheAnalysis ==
  pc = "an_done" =>
    /\ thrown = << >>
    /\ outcome = "running"
    /\ issueInfo # Undefined
    /\ IF RootPath \in hosting.failing
       THEN issueInfo.codebaseAnalysis.fileStructure = << >>
       ELSE NodesRemain(issueInfo.codebaseAnalysis.fileStructure,
                        hosting.contents, hosting.failing)

\* The listing of src and the content of package.json were rejected and the
\* analysis of the seven entries of the root came back all the same.
C35_Witness ==
  /\ pc = "an_done"
  /\ hosting.contents = RepoMixed
  /\ hosting.failing = {<<"s","r","c">>, <<"p","a","c","k","a","g","e",".","j","s","o","n">>}
  /\ Len(issueInfo.codebaseAnalysis.fileStructure) = 7
  /\ ~issueInfo.codebaseAnalysis.fileStructure[1].hasChildren
  /\ ~issueInfo.codebaseAnalysis.fileStructure[3].hasContent
  /\ issueInfo.codebaseAnalysis.fileStructure[4].hasContent

\* Every node of a file structure, at any depth.
RECURSIVE AllNodes(_)
AllNodes(structure) ==
  IF structure = << >>
  THEN {}
  ELSE {Head(structure)} \cup AllNodes(Head(structure).children)
         \cup AllNodes(Tail(structure))

\* C36: in the file structure of every analysis a node has content only if
\* it is a file whose name is one of the listed file names or ends with one
\* of the listed extensions, and has children only if it is a directory whose
\* lower-cased name is one of the listed directory names or has 'src' or 'lib'
\* in it; every other node has neither.
C36_ContentAndChildrenOnlyWhereAdmitted ==
  pc = "an_done" =>
    \A node \in AllNodes(issueInfo.codebaseAnalysis.fileStructure) :
      LET lower == SubSeq(ToLowerCase(node.name), 1, Len(node.name))
      IN /\ node.hasContent =>
              /\ node.type = "file"
              /\ \/ node.name \in importantFiles
                 \/ \E ext \in importantExtensions : EndsWith(node.name, ext)
         /\ node.hasChildren =>
              /\ node.type = "dir"
              /\ \/ lower \in importantDirs
                 \/ Includes(lower, <<"s","r","c">>)
                 \/ Includes(lower, <<"l","i","b">>)
         /\ ~node.hasContent => node.content = << >>
         /\ ~node.hasChildren => node.children = << >>

\* The repository in several languages was analyzed with no call rejected:
\* src was entered and index.ts read, docs was not entered, and the picture
\* and the link have neither content nor children.
C36_Witness ==
  /\ pc = "an_done"
  /\ hosting.contents = RepoMixed
  /\ hosting.failing = {}
  /\ LET structure == issueInfo.codebaseAnalysis.fileStructure
     IN /\ structure[1].hasChildren
        /\ structure[1].children[1].hasContent
        /\ ~structure[1].children[4].hasContent
        /\ ~structure[2].hasChildren
        /\ structure[3].hasContent
        /\ ~structure[6].hasContent
        /\ ~structure[7].hasContent /\ ~structure[7].hasChildren

\* Every entry of a repository, at any depth, as the hosting API lists it.
RECURSIVE AllEntries(_)
AllEntries(contents) ==
  IF contents = << >>
  THEN {}
  ELSE {Head(contents)} \cup AllEntries(Head(contents).entries)
         \cup AllEntries(Tail(contents))

\* The directories of the repository whose name admits them: the lower-cased
\* name is one of importantDirs or has 'src' or 'lib' in it.
AdmittedDirectories ==
  {entry \in AllEntries(hosting.contents) :
     /\ entry.type = "dir"
     /\ LET lower == SubSeq(ToLowerCase(entry.name), 1, Len(entry.name))
        IN \/ lower \in importantDirs
           \/ Includes(lower, <<"s","r","c">>)
           \/ Includes(lower, <<"l","i","b">>)}

\* The getContent calls of the analysis that asked for the listing of a
\* directory of the repository (the root is not among them).
ListingFetches ==
  {k \in 1..Len(fetches) :
     \E entry \in AllEntries(hosting.contents) :
       entry.type = "dir" /\ entry.path = fetches[k]}

\* C37: the analysis asks the hosting API for the listing of a directory only
\* if the name of the directory admits it, so that the listings asked for,
\* the root aside, are no more than the admitted directories.
C37_ListingOnlyOfAdmittedDirectories ==
  /\ \A k \in ListingFetches :
       \E entry \in AdmittedDirectories : entry.path = fetches[k]
  /\ Cardinality(ListingFetches) <= Cardinality(AdmittedDirectories)

\* The names of the files of a file structure, at any depth, in the order a
\* walk meets them: a node before its children, its children before the
\* node after it.
RECURSIVE FilesInOrder(_)
FilesInOrder(structure) ==
  IF structure = << >>
  THEN << >>
  ELSE (IF Head(structure).type = "file"
        THEN <<Head(structure).name>>
        ELSE << >>)
         \o FilesInOrder(Head(structure).children)
         \o FilesInOrder(Tail(structure))

\* The language with the most files of the structure among those whose
\* extension maps to a language; of several with the most, the one whose
\* first file the walk meets first; "Unknown" when there is no such file.
LanguageOfMostFiles(structure) ==
  LET names == FilesInOrder(structure)
      LanguageAt(i) == extensionToLanguage(getExtension(names[i]))
      mapped == {i \in 1..Len(names) : LanguageAt(i) # ""}
      FilesOf(language) == Cardinality({i \in mapped : LanguageAt(i) = language})
      most == {i \in mapped : \A j \in mapped : FilesOf(LanguageAt(j)) <= FilesOf(LanguageAt(i))}
  IN IF mapped = {}
     THEN "Unknown"
     ELSE LanguageAt(CHOOSE i \in most : \A j \in most : i <= j)

\* C38: the main language of an analysis is the language with the highest
\* number of files, at any depth of the file structure, whose extension maps
\* to it; among several languages with the highest number it is the one met
\* first in the walk; it is "Unknown" when no file maps to a language.
C38_MainLanguageHasTheMostFiles ==
  (pc = "an_done" /\ RootPath \notin hosting.failing) =>
    issueInfo.codebaseAnalysis.mainLanguage =
      LanguageOfMostFiles(issueInfo.codebaseAnalysis.fileStructure)

\* Two JavaScript and two TypeScript files, one of each below the root, the
\* first file in JavaScript: the main language is JavaScript.
C38_Witness ==
  /\ pc = "an_done"
  /\ hosting.contents = RepoTie
  /\ hosting.failing = {}
  /\ Len(FilesInOrder(issueInfo.codebaseAnalysis.fileStructure)) = 4
  /\ issueInfo.codebaseAnalysis.fileStructure[3].hasChildren
  /\ issueInfo.codebaseAnalysis.mainLanguage = "JavaScript"

====
